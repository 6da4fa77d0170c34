------------------------------- MODULE MCPac -------------------------------
(***************************************************************************)
(* resolve_for_url in Auto mode, with the script and the host of a test of *)
(* src/proxy/pac.rs and a few around it.                                   *)
(***************************************************************************)
EXTENDS PacAlgorithms

\* helper_functions_and_variables: a top-level variable, a helper function.
TestScript ==
  <<Id("var"), Id("backup"), P("="), StrTok(<<"PROXY backup">>), P(";")>>
  \o Fn("isInternal", <<Id("host")>>,
        ReturnTok(CallTok("dnsDomainIs", <<Id("host"), P(","), StrTok(<<".", "corp">>)>>)))
  \o Find(<<Id("if"), P("(")>> \o CallTok("isInternal", <<Id("host")>>) \o <<P(")"), P("{")>>
          \o ReturnTok(<<StrTok(<<"DIRECT">>)>>) \o <<P("}")>>
          \o ReturnTok(<<Id("backup")>>))

Hosts == {Www, <<"db", ".", "corp">>, <<"www", ".", "org">>}

VARIABLES script, host, answer

Init == script \in {TestScript, Countdown(3)} /\ host \in Hosts /\ answer = Null

\* Request::ResolveProxy
Resolve ==
  /\ answer = Null
  /\ answer' = evaluate(script, Www, host, Epoch)
  /\ UNCHANGED <<script, host>>

\* The next host.
Ask == answer # Null /\ answer' = Null /\ host' \in Hosts /\ UNCHANGED script

Spec == Init /\ [][Resolve \/ Ask]_<<script, host, answer>>

\* The program as Program::globals is documented: the top-level statements run
\* in the scope of every function before its body.
Seeded(program) ==
  [program EXCEPT !.functions =
     [f \in DOMAIN @ |-> [@[f] EXCEPT !.body = program.globals \o @]]]

\* A function sees the top-level variables of its script (Program::globals,
\* evaluate).
GlobalsVisible ==
  answer # Null => answer = Run(Seeded(Parse(script).node), Www, host, Epoch)
=============================================================================
