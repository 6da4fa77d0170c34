--------------------------- MODULE PacAlgorithms ---------------------------
(***************************************************************************)
(* What the algorithms of Pac.tla compute, against reference definitions,  *)
(* over bounded inputs.  The references are written from what the          *)
(* functions are for, not from their code.                                 *)
(***************************************************************************)
EXTENDS Pac, TLC

PacDns == (<<"db", ".", "corp">> :> <<"1", "0", "1", "0">>)
          @@ (<<"www">> :> <<"0", "1", "1", "0">>)
PacAddress == <<"1", "1", "0", "0">>
-----------------------------------------------------------------------------
(* The parser inverts a printer *)

Leaves == { [op |-> "num", num |-> 1], [op |-> "ident", name |-> "x"] }
Operators == UNION {Levels[k] : k \in DOMAIN Levels}

Grow(es) ==
  es \cup {Binary(op, l, r) : op \in Operators, l \in es, r \in es}
     \cup {[op |-> "!", l |-> l] : l \in es}
     \cup {[op |-> "call", name |-> "f", args |-> <<l>>] : l \in es}

Precedence(op) == CHOOSE k \in DOMAIN Levels : op \in Levels[k]

Rank(e) == IF e.op \in Operators THEN Precedence(e.op) ELSE Len(Levels) + 1

\* The tokens of e where an operand of rank k is expected, with the fewest
\* parentheses the grammar allows: a left operand may be of its operator's own
\* rank, a right one may not.
RECURSIVE Unparse(_, _)
Unparse(e, k) ==
  LET ts == CASE e.op = "num" -> <<NumTok(e.num)>>
              [] e.op = "ident" -> <<Id(e.name)>>
              [] e.op = "call" -> <<Id(e.name), P("(")>> \o Unparse(e.args[1], 1) \o <<P(")")>>
              [] e.op = "!" -> <<P("!")>> \o Unparse(e.l, Len(Levels) + 1)
              [] OTHER -> Unparse(e.l, Rank(e)) \o <<P(e.op)>> \o Unparse(e.r, Rank(e) + 1)
  IN IF Rank(e) < k THEN <<P("(")>> \o ts \o <<P(")")>> ELSE ts

\* The parser reads back every expression of two levels, and every binary
\* expression over those of one, as it was written: precedence, associativity
\* to the left, the operands of "!" and of calls (parse_or to parse_primary).
ASSUME ParserInvertsPrinter ==
  \A e \in Grow(Grow(Leaves)) :
     LET ts == Unparse(e, 1) IN ParseExpr(ts, 1, 1) = Parsed(e, Len(ts) + 1)
-----------------------------------------------------------------------------
(* sh_exp_match *)

Words(syms, n) == UNION {[1..k -> syms] : k \in 0..n}

\* Is s the pattern p with one symbol for each "?" and any word for each "*"?
\* Each position of p covers cut[i]+1..cut[i+1] of s.
Covers(s, p) ==
  \E cut \in [1..Len(p)+1 -> 0..Len(s)] :
    /\ cut[1] = 0 /\ cut[Len(p) + 1] = Len(s)
    /\ \A i \in DOMAIN p :
         \/ p[i] = "*" /\ cut[i] <= cut[i + 1]
         \/ p[i] # "*" /\ cut[i + 1] = cut[i] + 1 /\ p[i] \in {"?", s[cut[i + 1]]}

\* sh_exp_match is the shell's matching.
ASSUME ShExpMatchCovers ==
  \A s \in Words({"a", "."}, 3), p \in Words({"a", ".", "?", "*"}, 3) :
     sh_exp_match(s, p) = Covers(s, p)
-----------------------------------------------------------------------------
(* The calendar *)

Leap(y) == y % 4 = 0 /\ (y % 100 # 0 \/ y % 400 = 0)
MonthLength(y, m) ==
  CASE m = 2 -> IF Leap(y) THEN 29 ELSE 28
    [] m \in {4, 6, 9, 11} -> 30
    [] OTHER -> 31

DayAfter(c) ==
  CASE c.day < MonthLength(c.year, c.month) -> [c EXCEPT !.day = @ + 1]
    [] c.day = MonthLength(c.year, c.month) /\ c.month < 12 ->
         [year |-> c.year, month |-> c.month + 1, day |-> 1]
    [] OTHER -> [year |-> c.year + 1, month |-> 1, day |-> 1]

\* civil_from_days starts at 1 January 1970, a Thursday, and the next day is
\* always the next date: around the ends of the years 1970 to 1974, 2000,
\* 2024 and 2100, which has no 29 February.
ASSUME CivilSteps ==
  /\ civil_from_days(0) = [year |-> 1970, month |-> 1, day |-> 1]
  /\ weekday_from_days(0) = 4
  /\ \A z \in (0..1500) \cup (10950..11330) \cup (19700..20100) \cup (47450..47900) :
       /\ civil_from_days(z + 1) = DayAfter(civil_from_days(z))
       /\ weekday_from_days(z + 1) = (weekday_from_days(z) + 1) % 7

\* A range that wraps holds the days from its first to its last, counted
\* forwards around the week (weekday_range).
ASSUME WeekdaysWrap ==
  \A z \in 0..6, d1 \in 0..6, d2 \in 0..6 :
     LET today == weekday_from_days(z)
     IN weekday_range(today, <<Str(WEEKDAYS[d1 + 1]), Str(WEEKDAYS[d2 + 1])>>)
        <=> \E k \in 0..((d2 - d1) % 7) : today = (d1 + k) % 7
-----------------------------------------------------------------------------
(* Whole scripts *)

Fn(name, params, body) ==
  <<Id("function"), Id(name), P("(")>> \o params \o <<P(")"), P("{")>> \o body \o <<P("}")>>
CallTok(f, args) == <<Id(f), P("(")>> \o args \o <<P(")")>>
ReturnTok(e) == <<Id("return")>> \o e \o <<P(";")>>

UrlHost == <<Id("url"), P(","), Id("host")>>
Find(body) == Fn("FindProxyForURL", UrlHost, body)

\* count(n) calls itself until n reaches the limit.
Countdown(limit) ==
  Fn("count", <<Id("n")>>,
     <<Id("if"), P("("), Id("n"), P("<"), NumTok(limit), P(")"), P("{")>>
     \o ReturnTok(CallTok("count", <<Id("n"), P("+"), NumTok(1)>>)) \o <<P("}")>>
     \o ReturnTok(<<StrTok(<<"done">>)>>))
  \o Find(ReturnTok(CallTok("count", <<NumTok(0)>>)))

Epoch == [day |-> 0, hour |-> 0]
Www == <<"www">>

\* Calls nest to MAX_CALL_DEPTH below FindProxyForURL and no deeper, and one
\* call too many is an error, not an overflow (Interp::call).
ASSUME RecursionBounded ==
  \A limit \in 0..MAX_CALL_DEPTH + 2 :
     evaluate(Countdown(limit), Www, Www, Epoch)
       = IF limit < MAX_CALL_DEPTH THEN Str(<<"done">>) ELSE Error

\* An operand that && or || does not need is not evaluated: the undefined
\* function "missing" is an error exactly when it is called (Interp::eval).
ASSUME ShortCircuits ==
  \A op \in {"&&", "||"}, b \in {"true", "false"} :
     evaluate(Find(ReturnTok(<<Id(b), P(op)>> \o CallTok("missing", <<>>))), Www, Www, Epoch)
       = IF (op = "&&") = (b = "true") THEN Error ELSE Str(<<b>>)

\* A call sees its parameters and nothing of its caller; what it assigns is
\* gone when it returns (Interp::call).
ASSUME ScopesAreSeparate ==
  LET leak == Fn("leak", <<>>, <<Id("host"), P("="), StrTok(<<"b">>), P(";")>> \o ReturnTok(<<Id("url")>>))
  IN /\ evaluate(leak \o Find(ReturnTok(CallTok("leak", <<>>))), Www, Www, Epoch) = Str(<<"DIRECT">>)
     /\ evaluate(leak \o Find(CallTok("leak", <<>>) \o ReturnTok(<<Id("host")>>)), Www, Www, Epoch)
          = Str(Www)

\* Under the mask of a prefix length, an address is in a net exactly when the
\* two agree that far (is_in_net).
ASSUME NetsArePrefixes ==
  LET addresses == [1..AddressBits -> {"0", "1"}]
      prefix(n) == [i \in 1..AddressBits |-> IF i <= n THEN "1" ELSE "0"]
  IN \A ip \in addresses, net \in addresses, n \in 0..AddressBits :
       is_in_net(ip, net, prefix(n)) <=> SubSeq(ip, 1, n) = SubSeq(net, 1, n)
-----------------------------------------------------------------------------
(* URLs and manual proxies *)

\* extract_host finds the host of a URL put together from its parts: with or
\* without a scheme, user, port and path, a host in brackets, and an "@" or a
\* ":" in the path that belongs to none of them (proxy::extract_host).
ASSUME HostExtracted ==
  \A scheme \in {<<>>, <<"http", "://">>},
     user \in {<<>>, <<"me", "@">>, <<"me", ":", "pw", "@">>, <<"me", "@", "home", "@">>},
     h \in {Www, <<"db", ".", "corp">>}, literal \in BOOLEAN,
     port \in {<<>>, <<":", "80">>},
     rest \in {<<>>, <<"/", "a", "@", "b", ":">>, <<"?", "q", "@", "b">>, <<"/", "x", "://", "y">>} :
       (scheme = <<>> => "://" \notin Range(rest)) =>
       extract_host(scheme \o user \o (IF literal THEN <<"[", "0", ":", "1", "]">> ELSE h) \o port \o rest)
         = IF literal THEN <<"0", ":", "1">> ELSE h

\* A no_proxy entry covers a domain and its subdomains at a label boundary,
\* with or without its leading dot (proxy::host_matches_no_proxy).
ASSUME NoProxyByLabel ==
  LET names == {h \in Words({"a", "b", "."}, 4) : h # <<>>}
      domains == {<<"a">>, <<"b", ".", "a">>}
  IN \A h \in names, d \in domains :
       /\ host_matches_no_proxy(h, d) = host_matches_no_proxy(h, <<".">> \o d)
       /\ host_matches_no_proxy(h, d)
            <=> \E k \in 1..Len(h) : SubSeq(h, k, Len(h)) = d /\ (k = 1 \/ h[k - 1] = ".")

\* A manual configuration answers with the first proxy set among those the
\* scheme may use, socks last; an ftp URL never goes to the http proxy
\* (proxy::manual_directive).
ASSUME ManualPreference ==
  LET set(k, on) == IF on THEN <<k>> ELSE <<>>
      prefer(s) == CASE s = "https" -> <<"https", "http", "socks">>
                     [] s = "ftp" -> <<"ftp", "socks">>
                     [] OTHER -> <<"http", "socks">>
  IN \A on \in [{"http", "https", "ftp", "socks"} -> BOOLEAN], s \in {"http", "https", "ftp", "ws"} :
       LET cfg == [k \in DOMAIN on |-> set(k, on[k])] @@ [no_proxy |-> <<<<"db", ".", "corp">>>>]
           usable == SelectSeq(prefer(s), LAMBDA k : on[k])
       IN /\ manual_directive(cfg, <<s, "://", "www">>)
               = IF usable = <<>> THEN <<"DIRECT">> ELSE <<"PROXY", usable[1]>>
          /\ manual_directive(cfg, <<s, "://", "x", ".", "db", ".", "corp">>) = <<"DIRECT">>
=============================================================================
