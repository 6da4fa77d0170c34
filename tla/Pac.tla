-------------------------------- MODULE Pac --------------------------------
(***************************************************************************)
(* Proxy auto-configuration scripts: the parser and the interpreter of     *)
(* src/proxy/pac.rs and its builtin functions.                             *)
(*                                                                         *)
(* A script is the sequence of tokens the tokenizer returns, without the   *)
(* final Eof: punctuation by itself, and words, string literals and        *)
(* numbers.  A string is a sequence of symbols; "." is one, a label of a   *)
(* host name may be one.  Numbers are integers.                            *)
(***************************************************************************)
EXTENDS Integers, Sequences, FiniteSets, SequencesExt

CONSTANTS
  MAX_CALL_DEPTH,
  AddressBits,   \* length of an address, in bits
  Dns,           \* the addresses of the hosts that have one
  MyAddress      \* what my_ip_address returns

P(sym) == [tok |-> sym, word |-> <<>>, num |-> 0]          \* punctuation
Id(w) == [tok |-> "ident", word |-> <<w>>, num |-> 0]      \* Tok::Ident
StrTok(s) == [tok |-> "str", word |-> s, num |-> 0]        \* Tok::Str
NumTok(n) == [tok |-> "num", word |-> <<>>, num |-> n]     \* Tok::Num
Eof == P("eof")
-----------------------------------------------------------------------------
(* Parser: what is parsed, from which position on, or a failure *)

Parsed(x, i) == [ok |-> TRUE, node |-> x, next |-> i]
Failed == [ok |-> FALSE, node |-> <<>>, next |-> 0]

\* peek
At(ts, i) == IF i <= Len(ts) THEN ts[i] ELSE Eof

\* Operators by precedence, low to high; each level associates to the left.
Levels == << {"||"}, {"&&"}, {"==", "!="}, {"<", ">", "<=", ">="}, {"+"} >>

Binary(op, l, r) == [op |-> op, l |-> l, r |-> r]

RECURSIVE ParseExpr(_, _, _), ParseRest(_, _, _), ParseUnary(_, _), ParseArgs(_, _, _)

\* parse_or down to parse_additive: level k of the precedences.
ParseExpr(ts, i, k) ==
  IF k > Len(Levels) THEN ParseUnary(ts, i)
  ELSE LET left == ParseExpr(ts, i, k + 1)
       IN IF left.ok THEN ParseRest(ts, left, k) ELSE Failed

\* The loop of a level: while an operator of it follows, an operand of the
\* next level.
ParseRest(ts, left, k) ==
  IF At(ts, left.next).tok \notin Levels[k] THEN left
  ELSE LET right == ParseExpr(ts, left.next + 1, k + 1)
       IN IF ~right.ok THEN Failed
          ELSE ParseRest(ts, Parsed(Binary(At(ts, left.next).tok, left.node, right.node),
                                    right.next), k)

\* parse_unary and parse_primary
ParseUnary(ts, i) ==
  LET t == At(ts, i) IN
  CASE t.tok = "!" ->
         LET e == ParseUnary(ts, i + 1)
         IN IF e.ok THEN Parsed([op |-> "!", l |-> e.node], e.next) ELSE Failed
    [] t.tok = "str" -> Parsed([op |-> "str", str |-> t.word], i + 1)
    [] t.tok = "num" -> Parsed([op |-> "num", num |-> t.num], i + 1)
    [] t.tok = "(" ->
         LET e == ParseExpr(ts, i + 1, 1)
         IN IF e.ok /\ At(ts, e.next).tok = ")" THEN Parsed(e.node, e.next + 1) ELSE Failed
    [] t.tok = "ident" /\ t.word[1] \in {"true", "false"} ->
         Parsed([op |-> "bool", bool |-> t.word[1] = "true"], i + 1)
    [] t.tok = "ident" /\ t.word[1] \notin {"true", "false"} ->
         IF At(ts, i + 1).tok # "(" THEN Parsed([op |-> "ident", name |-> t.word[1]], i + 1)
         ELSE LET args == IF At(ts, i + 2).tok = ")" THEN Parsed(<<>>, i + 2)
                          ELSE ParseArgs(ts, i + 2, <<>>)
              IN IF args.ok /\ At(ts, args.next).tok = ")"
                 THEN Parsed([op |-> "call", name |-> t.word[1], args |-> args.node],
                             args.next + 1)
                 ELSE Failed
    [] OTHER -> Failed

ParseArgs(ts, i, sofar) ==
  LET e == ParseExpr(ts, i, 1) IN
  CASE ~e.ok -> Failed
    [] e.ok /\ At(ts, e.next).tok = "," -> ParseArgs(ts, e.next + 1, Append(sofar, e.node))
    [] OTHER -> Parsed(Append(sofar, e.node), e.next)

\* skip_semi
SkipSemi(ts, p) ==
  IF p.ok /\ At(ts, p.next).tok = ";" THEN [p EXCEPT !.next = @ + 1] ELSE p

\* The statement stmt around the expression at i.
WithExpr(ts, i, stmt) ==
  LET e == ParseExpr(ts, i, 1)
  IN IF e.ok THEN SkipSemi(ts, Parsed([stmt EXCEPT !.e = e.node], e.next)) ELSE Failed

Word(ts, i) == IF At(ts, i).tok = "ident" THEN At(ts, i).word[1] ELSE "not an identifier"
IsIdent(ts, i) == At(ts, i).tok = "ident"

NoExpr == [op |-> "nothing"]

RECURSIVE ParseStmt(_, _), ParseStmts(_, _, _), ParseParams(_, _, _), ParseItems(_, _, _)

\* parse_block
ParseBlock(ts, i) == IF At(ts, i).tok = "{" THEN ParseStmts(ts, i + 1, <<>>) ELSE Failed

ParseStmts(ts, i, sofar) ==
  CASE At(ts, i).tok = "}" -> Parsed(sofar, i + 1)
    [] At(ts, i) = Eof -> Failed
    [] OTHER -> LET s == ParseStmt(ts, i)
                IN IF s.ok THEN ParseStmts(ts, s.next, Append(sofar, s.node)) ELSE Failed

ParseElse(ts, i) ==
  CASE Word(ts, i) # "else" -> Parsed(<<>>, i)
    [] Word(ts, i) = "else" /\ Word(ts, i + 1) = "if" ->
         LET s == ParseStmt(ts, i + 1)
         IN IF s.ok THEN Parsed(<<s.node>>, s.next) ELSE Failed
    [] OTHER -> ParseBlock(ts, i + 1)

ParseStmt(ts, i) ==
  CASE Word(ts, i) = "var" ->
         IF ~IsIdent(ts, i + 1) THEN Failed
         ELSE IF At(ts, i + 2).tok = "="
         THEN WithExpr(ts, i + 3, [stmt |-> "set", name |-> Word(ts, i + 1), e |-> NoExpr])
         ELSE SkipSemi(ts, Parsed([stmt |-> "set", name |-> Word(ts, i + 1), e |-> NoExpr], i + 2))
    [] Word(ts, i) = "return" ->
         IF At(ts, i + 1).tok \in {";", "}"}
         THEN SkipSemi(ts, Parsed([stmt |-> "return", e |-> NoExpr], i + 1))
         ELSE WithExpr(ts, i + 1, [stmt |-> "return", e |-> NoExpr])
    [] Word(ts, i) = "if" ->
         LET cond == ParseExpr(ts, i + 2, 1)
             then == ParseBlock(ts, cond.next + 1)
             else == ParseElse(ts, then.next)
         IN IF /\ At(ts, i + 1).tok = "(" /\ cond.ok /\ At(ts, cond.next).tok = ")"
               /\ then.ok /\ else.ok
            THEN Parsed([stmt |-> "if", e |-> cond.node, then |-> then.node, else |-> else.node],
                        else.next)
            ELSE Failed
    [] IsIdent(ts, i) /\ Word(ts, i) \notin {"var", "return", "if"} ->
         IF At(ts, i + 1).tok = "="
         THEN WithExpr(ts, i + 2, [stmt |-> "set", name |-> Word(ts, i), e |-> NoExpr])
         ELSE WithExpr(ts, i, [stmt |-> "expr", e |-> NoExpr])
    [] OTHER -> Failed

ParseParams(ts, i, sofar) ==
  CASE ~IsIdent(ts, i) -> Failed
    [] IsIdent(ts, i) /\ At(ts, i + 1).tok = "," ->
         ParseParams(ts, i + 2, Append(sofar, Word(ts, i)))
    [] OTHER -> Parsed(Append(sofar, Word(ts, i)), i + 1)

\* parse_program: functions by name, a later one in place of an earlier one,
\* and the other statements.
ParseItems(ts, i, program) ==
  CASE At(ts, i) = Eof -> Parsed(program, i)
    [] Word(ts, i) = "function" ->
         LET name == Word(ts, i + 1)
             params == IF At(ts, i + 3).tok = ")" THEN Parsed(<<>>, i + 3)
                       ELSE ParseParams(ts, i + 3, <<>>)
             body == ParseBlock(ts, params.next + 1)
         IN IF /\ IsIdent(ts, i + 1) /\ At(ts, i + 2).tok = "(" /\ params.ok
               /\ At(ts, params.next).tok = ")" /\ body.ok
            THEN ParseItems(ts, body.next, [program EXCEPT !.functions =
                   [f \in DOMAIN @ \cup {name} |->
                      IF f = name THEN [params |-> params.node, body |-> body.node] ELSE @[f]]])
            ELSE Failed
    [] OTHER -> LET s == ParseStmt(ts, i)
                IN IF s.ok THEN ParseItems(ts, s.next, [program EXCEPT !.globals = Append(@, s.node)])
                   ELSE Failed

Parse(ts) == ParseItems(ts, 1, [functions |-> <<>>, globals |-> <<>>])
-----------------------------------------------------------------------------
(* Values *)

Str(s) == [kind |-> "str", str |-> s]
Num(n) == [kind |-> "num", num |-> n]
Bool(b) == [kind |-> "bool", bool |-> b]
Null == [kind |-> "null"]
Error == [kind |-> "error"]       \* Err

Truthy(v) ==
  CASE v.kind = "str" -> v.str # <<>>
    [] v.kind = "num" -> v.num # 0
    [] v.kind = "bool" -> v.bool
    [] OTHER -> FALSE

AsString(v) ==
  CASE v.kind = "str" -> v.str
    [] v.kind = "num" -> <<ToString(v.num)>>
    [] v.kind = "bool" -> <<IF v.bool THEN "true" ELSE "false">>
    [] OTHER -> <<"null">>

\* The number as_num returns, none for NaN; no string here is a numeral.
AsNum(v) ==
  CASE v.kind = "num" -> {v.num}
    [] v.kind = "str" -> {}
    [] v.kind = "bool" -> {IF v.bool THEN 1 ELSE 0}
    [] OTHER -> {0}

\* as_num() as u32, which saturates
AsU32(v) == IF \E n \in AsNum(v) : n > 0 THEN CHOOSE n \in AsNum(v) : TRUE ELSE 0

values_eq(a, b) == IF a.kind = b.kind THEN a = b ELSE AsString(a) = AsString(b)
-----------------------------------------------------------------------------
(* Builtin functions.  now is the clock: days since 1970 and the hour. *)

\* sh_exp_match
RECURSIVE sh_exp_match(_, _)
sh_exp_match(s, p) ==
  CASE p = <<>> -> s = <<>>
    [] p # <<>> /\ p[1] = "*" ->
         sh_exp_match(s, Tail(p)) \/ (s # <<>> /\ sh_exp_match(Tail(s), p))
    [] OTHER -> s # <<>> /\ p[1] \in {"?", s[1]} /\ sh_exp_match(Tail(s), Tail(p))

civil_from_days(day) ==
  LET z == day + 719468
      era == IF z >= 0 THEN z \div 146097 ELSE -((146096 - z) \div 146097)
      doe == z - era * 146097
      yoe == (doe - doe \div 1460 + doe \div 36524 - doe \div 146096) \div 365
      doy == doe - (365 * yoe + yoe \div 4 - yoe \div 100)
      mp == (5 * doy + 2) \div 153
      m == IF mp < 10 THEN mp + 3 ELSE mp - 9
  IN [year |-> yoe + era * 400 + (IF m <= 2 THEN 1 ELSE 0),
      month |-> m,
      day |-> doy - (153 * mp + 2) \div 5 + 1]

weekday_from_days(z) == ((z % 7) + 4) % 7

WEEKDAYS == << <<"SUN">>, <<"MON">>, <<"TUE">>, <<"WED">>, <<"THU">>, <<"FRI">>, <<"SAT">> >>

\* The comparison the three range functions share: it wraps when the first
\* bound is the larger.
InRange(x, lo, hi) == IF lo <= hi THEN lo <= x /\ x <= hi ELSE lo <= x \/ x <= hi

\* date_range and time_range
NumberRange(x, args) ==
  CASE args = <<>> -> FALSE
    [] Len(args) = 1 -> x = AsU32(args[1])
    [] OTHER -> InRange(x, AsU32(args[1]), AsU32(args[2]))

weekday_range(today, args) ==
  LET idx(i) == {d \in 0..6 : i <= Len(args) /\ WEEKDAYS[d + 1] = AsString(args[i])}
  IN \E d1 \in idx(1) : IF idx(2) = {} THEN today = d1
                        ELSE \E d2 \in idx(2) : InRange(today, d1, d2)

IsAddress(s) == Len(s) = AddressBits /\ Range(s) \subseteq {"0", "1"}

resolve_host(host) ==
  CASE IsAddress(host) -> Str(host)
    [] ~IsAddress(host) /\ host \in DOMAIN Dns -> Str(Dns[host])
    [] OTHER -> Null

is_in_net(ip, pattern, mask) ==
  /\ IsAddress(ip) /\ IsAddress(pattern) /\ IsAddress(mask)
  /\ \A i \in DOMAIN mask : mask[i] = "1" => ip[i] = pattern[i]

\* How many arguments each builtin insists on (arg_str).
Arity == [isPlainHostName |-> 1, dnsDomainIs |-> 2, localHostOrDomainIs |-> 2,
          isResolvable |-> 1, dnsResolve |-> 1, myIpAddress |-> 0, dnsDomainLevels |-> 1,
          isInNet |-> 3, shExpMatch |-> 2, weekdayRange |-> 0, dateRange |-> 0,
          timeRange |-> 0, alert |-> 0]

call_builtin(name, args, now) ==
  LET a(i) == AsString(args[i])
      dots(s) == Len(SelectSeq(s, LAMBDA c : c = "."))
      ip == resolve_host(a(1))
  IN CASE Len(args) < Arity[name] -> Error
       [] OTHER ->
          CASE name = "isPlainHostName" -> Bool(dots(a(1)) = 0)
            [] name = "dnsDomainIs" -> Bool(IsSuffix(a(2), a(1)))
            [] name = "localHostOrDomainIs" ->
                 Bool(a(1) = a(2) \/ (dots(a(1)) = 0 /\ IsPrefix(a(1) \o <<".">>, a(2))))
            [] name = "isResolvable" -> Bool(ip # Null)
            [] name = "dnsResolve" -> ip
            [] name = "myIpAddress" -> Str(MyAddress)
            [] name = "dnsDomainLevels" -> Num(dots(a(1)))
            [] name = "isInNet" -> Bool(ip # Null /\ is_in_net(ip.str, a(2), a(3)))
            [] name = "shExpMatch" -> Bool(sh_exp_match(a(1), a(2)))
            [] name = "weekdayRange" -> Bool(weekday_range(weekday_from_days(now.day), args))
            [] name = "dateRange" -> Bool(NumberRange(civil_from_days(now.day).day, args))
            [] name = "timeRange" -> Bool(NumberRange(now.hour, args))
            [] name = "alert" -> Null
-----------------------------------------------------------------------------
(* Interpreter.  fs are the functions of the program. *)

RECURSIVE Eval(_, _, _, _, _), EvalArgs(_, _, _, _, _), Call(_, _, _, _, _), ExecBlock(_, _, _, _, _)

\* Arguments are evaluated left to right; the first error is the result.
EvalArgs(es, scope, depth, fs, now) ==
  LET vs == [i \in DOMAIN es |-> Eval(es[i], scope, depth, fs, now)]
  IN IF Error \in Range(vs) THEN <<Error>> ELSE vs

Less(l, r) == \E a \in AsNum(l), b \in AsNum(r) : a < b
LessEq(l, r) == \E a \in AsNum(l), b \in AsNum(r) : a <= b

\* The binary operators that evaluate both operands.
Operate(op, l, r) ==
  CASE op = "+" -> IF l.kind = "num" /\ r.kind = "num" THEN Num(l.num + r.num)
                   ELSE Str(AsString(l) \o AsString(r))
    [] op = "==" -> Bool(values_eq(l, r))
    [] op = "!=" -> Bool(~values_eq(l, r))
    [] op = "<" -> Bool(Less(l, r))
    [] op = ">" -> Bool(Less(r, l))
    [] op = "<=" -> Bool(LessEq(l, r))
    [] op = ">=" -> Bool(LessEq(r, l))

Eval(e, scope, depth, fs, now) ==
  CASE e.op = "nothing" -> Null
    [] e.op = "str" -> Str(e.str)
    [] e.op = "num" -> Num(e.num)
    [] e.op = "bool" -> Bool(e.bool)
    [] e.op = "ident" -> IF e.name \in DOMAIN scope THEN scope[e.name] ELSE Null
    [] e.op = "call" ->
         LET args == EvalArgs(e.args, scope, depth, fs, now)
         IN IF args = <<Error>> THEN Error ELSE Call(e.name, args, depth, fs, now)
    [] OTHER ->
         LET l == Eval(e.l, scope, depth, fs, now)
             r == Eval(e.r, scope, depth, fs, now)
         IN CASE l = Error -> Error
              [] l # Error /\ e.op = "!" -> Bool(~Truthy(l))
              [] l # Error /\ e.op = "&&" -> IF Truthy(l) THEN r ELSE l
              [] l # Error /\ e.op = "||" -> IF Truthy(l) THEN l ELSE r
              [] OTHER -> IF r = Error THEN Error ELSE Operate(e.op, l, r)

Call(name, args, depth, fs, now) ==
  CASE depth > MAX_CALL_DEPTH -> Error
    [] depth <= MAX_CALL_DEPTH /\ name \in DOMAIN Arity -> call_builtin(name, args, now)
    [] OTHER ->
         IF name \notin DOMAIN fs THEN Error
         ELSE LET f == fs[name]
                  n == IF Len(f.params) < Len(args) THEN Len(f.params) ELSE Len(args)
                  scope == [p \in {f.params[i] : i \in 1..n} |->
                              args[CHOOSE i \in 1..n : f.params[i] = p
                                     /\ \A j \in i+1..n : f.params[j] # p]]
              IN ExecBlock(f.body, scope, depth + 1, fs, now).value

\* exec_block and exec_stmt: the scope after the statements, whether one
\* returned, and the value (Null when none did).
ExecBlock(stmts, scope, depth, fs, now) ==
  IF stmts = <<>> THEN [done |-> FALSE, value |-> Null, scope |-> scope]
  ELSE LET s == stmts[1]
           v == Eval(s.e, scope, depth, fs, now)
           branch == ExecBlock(IF Truthy(v) THEN s.then ELSE s.else, scope, depth, fs, now)
           after == IF s.stmt = "set"
                    THEN [x \in DOMAIN scope \cup {s.name} |-> IF x = s.name THEN v ELSE scope[x]]
                    ELSE IF s.stmt = "if" THEN branch.scope ELSE scope
       IN CASE v = Error \/ s.stmt = "return" -> [done |-> TRUE, value |-> v, scope |-> scope]
            [] v # Error /\ s.stmt = "if" /\ branch.done -> branch
            [] OTHER -> ExecBlock(Tail(stmts), after, depth, fs, now)

\* What evaluate does with a parsed program: the top-level statements run
\* first, each in turn and into a scope of their own, which only their errors
\* leave.
RECURSIVE GlobalsFail(_, _, _, _)
GlobalsFail(stmts, scope, fs, now) ==
  /\ stmts # <<>>
  /\ LET g == ExecBlock(<<stmts[1]>>, scope, 0, fs, now)
     IN g.value = Error \/ GlobalsFail(Tail(stmts), g.scope, fs, now)

Run(program, url, host, now) ==
  LET fs == program.functions
      result == Call("FindProxyForURL", <<Str(url), Str(host)>>, 0, fs, now)
  IN CASE "FindProxyForURL" \notin DOMAIN fs -> Error
       [] "FindProxyForURL" \in DOMAIN fs /\ GlobalsFail(program.globals, <<>>, fs, now) -> Error
       [] OTHER -> IF result = Error THEN Error
                   ELSE IF result = Null THEN Str(<<"DIRECT">>) ELSE Str(AsString(result))

evaluate(script, url, host, now) ==
  LET p == Parse(script) IN IF p.ok THEN Run(p.node, url, host, now) ELSE Error
-----------------------------------------------------------------------------
(* resolve_for_url of src/proxy/proxy.rs: the Auto and the Manual mode *)

\* The part of s before the first, or after the first or the last, symbol
\* among syms; s itself when there is none.
BeforeFirst(s, syms) ==
  LET i == SelectInSeq(s, LAMBDA c : c \in syms) IN IF i = 0 THEN s ELSE SubSeq(s, 1, i - 1)
AfterFirst(s, sym) == SubSeq(s, SelectInSeq(s, LAMBDA c : c = sym) + 1, Len(s))
AfterLast(s, sym) == SubSeq(s, SelectLastInSeq(s, LAMBDA c : c = sym) + 1, Len(s))

extract_host(url) ==
  LET authority == AfterLast(BeforeFirst(AfterFirst(url, "://"), {"/", "?", "#"}), "@")
  IN IF authority # <<>> /\ authority[1] = "["
     THEN BeforeFirst(Tail(authority), {"]"})
     ELSE BeforeFirst(authority, {":"})

host_matches_no_proxy(h, pattern) ==
  LET suffix == IF pattern # <<>> /\ pattern[1] = "." THEN Tail(pattern) ELSE pattern
  IN pattern = <<"*">> \/ h = suffix \/ IsSuffix(<<".">> \o suffix, h)

\* cfg maps http, https, ftp and socks to a string, <<>> for None, and no_proxy
\* to a sequence of patterns.
manual_directive(cfg, url) ==
  LET scheme == BeforeFirst(url, {"://", ":"})
      chosen == CASE scheme = <<"https">> -> IF cfg.https # <<>> THEN cfg.https ELSE cfg.http
                  [] scheme = <<"ftp">> -> cfg.ftp
                  [] OTHER -> cfg.http
      proxy == IF chosen # <<>> THEN chosen ELSE cfg.socks
  IN IF proxy = <<>> \/ \E pat \in Range(cfg.no_proxy) : host_matches_no_proxy(extract_host(url), pat)
     THEN <<"DIRECT">> ELSE <<"PROXY">> \o proxy
=============================================================================
