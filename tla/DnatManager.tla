----------------------------- MODULE DnatManager -----------------------------
(***************************************************************************)
(* The router's redirects (src/server/dnat.py): what enable() and          *)
(* disable() do to the iptables of a router over SSH, command by command,  *)
(* while commands fail, the connection breaks, the router reboots and the  *)
(* server's address changes.                                               *)
(*                                                                         *)
(* A check and the command it decides are one step: only a reboot could    *)
(* come between them, and then the command fails.  The router is external: *)
(* it keeps the rules of a chain in order, and a packet follows the first  *)
(* one that matches.                                                       *)
(***************************************************************************)
EXTENDS Naturals, Sequences, SequencesExt

CONSTANTS
  Redirects,   \* how many destinations RULES names
  Ip,     \* addresses the server can have
  MaxMoves, MaxFaults, MaxReboots

ASSUME DnatAssumption ==
  /\ Redirects \in Nat \ {0}
  /\ MaxMoves \in Nat /\ MaxFaults \in Nat /\ MaxReboots \in Nat

Rule == [for : 1 .. Redirects, to : Ip]

VARIABLES
  ip,        \* the server_ip that _load() yields
  chain,     \* the chain MTTL_DNAT exists
  hooks,     \* how many rules of PREROUTING jump to it
  rules,     \* its rules, in order
  doing,     \* where the request under self.lock stands
  using,     \* the server_ip of the configuration it loaded
  done,      \* rules it has dealt with
  misled,    \* a command failed in this request
  answer,    \* what the last request answered, while nothing happened since
  moved,     \* the address changed under a rule or a request
  troubles   \* moves, faults and reboots so far

table == <<chain, hooks, rules>>
dnatVars == <<ip, table, doing, using, done, misled, answer, moved, troubles>>

DnatTypeOK ==
  /\ ip \in Ip /\ using \in Ip
  /\ chain \in BOOLEAN /\ hooks \in Nat /\ rules \in Seq(Rule)
  /\ doing \in {"idle", "chain", "hook", "rules", "verify", "unrule", "unhook", "flush"}
  /\ done \in 0 .. Redirects /\ (doing = "verify" => done < Redirects)
  /\ misled \in BOOLEAN /\ moved \in BOOLEAN
  /\ answer \in {"none", "on", "off", "error"}
  /\ troubles \in [moves : 0 .. MaxMoves, faults : 0 .. MaxFaults, reboots : 0 .. MaxReboots]

DnatInit ==
  /\ ip \in Ip /\ using = ip
  /\ chain = FALSE /\ hooks = 0 /\ rules = <<>>
  /\ doing = "idle" /\ done = 0 /\ misled = FALSE
  /\ answer = "none" /\ moved = FALSE
  /\ troubles = [moves |-> 0, faults |-> 0, reboots |-> 0]

-----------------------------------------------------------------------------
\* _rule: redirect i with the address of the request's configuration
Mine(i) == [for |-> i, to |-> using]

\* _has, when the command works
Has(i) == \E n \in DOMAIN rules : rules[n] = Mine(i)

Trouble(kind, most) ==
  troubles[kind] < most /\ troubles' = [troubles EXCEPT ![kind] = @ + 1]

\* A command exits with an error although nothing is wrong (the table is locked,
\* the shell cannot run it): _run hands the code on, and _has says "not there"
Fault == Trouble("faults", MaxFaults) /\ misled' = TRUE
Fine == UNCHANGED <<troubles, misled>>

\* The request goes on, or ends with an answer or an exception
Step(place, n) == doing' = place /\ done' = n /\ UNCHANGED answer
Finish(what) == doing' = "idle" /\ done' = 0 /\ answer' = what

-----------------------------------------------------------------------------
(* Around the requests *)

\* The server gets another address, or a saved configuration names one
MoveServer(a) ==
  /\ a # ip /\ Trouble("moves", MaxMoves)
  /\ ip' = a /\ answer' = "none"
  /\ moved' = (moved \/ rules # <<>> \/ doing # "idle")
  /\ UNCHANGED <<table, doing, using, done, misled>>

\* The table does not survive the router
Reboot ==
  /\ Trouble("reboots", MaxReboots)
  /\ chain' = FALSE /\ hooks' = 0 /\ rules' = <<>>
  /\ answer' = "none" /\ moved' = (moved /\ doing # "idle")
  /\ UNCHANGED <<ip, doing, using, done, misled>>

FirstLoaded == using   \* mutant
\* _load: the file and the detected address are read for every request
Loaded == ip

\* enable() or disable() takes the lock, loads the configuration and connects
Begin(what) ==
  /\ doing = "idle"
  /\ doing' = IF what = "enable" THEN "chain" ELSE "unrule"
  /\ using' = Loaded /\ done' = 0 /\ misled' = FALSE /\ answer' = "none"
  /\ UNCHANGED <<ip, table, moved, troubles>>

\* The connection breaks, or a command fails that may not (_exec): it raises
Break ==
  /\ doing # "idle" /\ Fault /\ Finish("error")
  /\ UNCHANGED <<ip, table, using, moved>>

-----------------------------------------------------------------------------
(* enable *)

\* A chain that cannot be listed is made; `-N` of one that is there fails (Break)
EnsureChain ==
  /\ doing = "chain"
  /\ chain' = TRUE /\ Step("hook", 0) /\ Fine
  /\ UNCHANGED <<ip, hooks, rules, using, moved>>

\* A jump at the top of PREROUTING, a second one when the check was misread
EnsureHook ==
  /\ doing = "hook"
  /\ IF ~chain THEN Finish("error") /\ Fine /\ UNCHANGED hooks
     ELSE /\ Step("rules", 0)
          /\ \/ hooks > 0 /\ Fine /\ UNCHANGED hooks
             \/ hooks' = hooks + 1 /\ IF hooks = 0 THEN Fine ELSE Fault
  /\ UNCHANGED <<ip, chain, rules, using, moved>>

\* The next rule goes to the end of the chain unless it is there already
EnsureRule ==
  /\ doing = "rules" /\ done < Redirects
  /\ IF ~chain THEN Finish("error") /\ Fine /\ UNCHANGED rules
     ELSE /\ Step("rules", done + 1)
          /\ \/ Has(done + 1) /\ Fine /\ UNCHANGED rules
             \/ /\ rules' = Append(rules, Mine(done + 1))
                /\ IF Has(done + 1) THEN Fault ELSE Fine
  /\ UNCHANGED <<ip, chain, hooks, using, moved>>

\* conntrack is cleared; then status() loads the configuration again and looks
\* for the chain and the jump
Verify ==
  /\ doing = "rules" /\ done = Redirects
  /\ using' = ip
  /\ \/ chain /\ hooks > 0 /\ Step("verify", 0) /\ Fine
     \/ ~(chain /\ hooks > 0) /\ Finish("error") /\ Fine
     \/ Finish("error") /\ Fault
  /\ UNCHANGED <<ip, table, moved>>

NotAsked(i) == TRUE   \* mutant
Confirmed(i) == Has(i)

\* ... and for every rule; all found is "on", anything else raises
VerifyRule ==
  /\ doing = "verify"
  /\ \/ /\ Confirmed(done + 1) /\ Fine
        /\ IF done + 1 = Redirects THEN Finish("on") ELSE Step("verify", done + 1)
     \/ ~Confirmed(done + 1) /\ Finish("error") /\ Fine
     \/ Finish("error") /\ Fault
  /\ UNCHANGED <<ip, table, using, moved>>

-----------------------------------------------------------------------------
(* disable *)

\* Each rule of the current address is deleted as often as it is there (at most
\* ten times, more than faults can make of it)
DeleteRule ==
  /\ doing = "unrule" /\ done < Redirects
  /\ \/ /\ Fine /\ Step("unrule", done)
        /\ \E n \in DOMAIN rules :
             /\ rules[n] = Mine(done + 1) /\ \A m \in 1 .. n - 1 : rules[m] # Mine(done + 1)
             /\ rules' = RemoveAt(rules, n)
     \/ /\ IF Has(done + 1) THEN Fault ELSE Fine
        /\ Step("unrule", done + 1) /\ UNCHANGED rules
  /\ UNCHANGED <<ip, chain, hooks, using, moved>>

\* Without a chain there is nothing else to undo
FindChain ==
  /\ doing = "unrule" /\ done = Redirects
  /\ \/ chain /\ Step("unhook", 0) /\ Fine
     \/ Finish("off") /\ IF chain THEN Fault ELSE Fine
  /\ UNCHANGED <<ip, table, using, moved>>

\* while self._has(PREROUTING ...)
Unhook ==
  /\ doing = "unhook"
  /\ \/ hooks > 0 /\ Fine /\ hooks' = hooks - 1 /\ Step("unhook", 0)
     \/ /\ IF hooks > 0 THEN Fault ELSE Fine
        /\ Step("flush", 0) /\ UNCHANGED hooks
  /\ UNCHANGED <<ip, chain, rules, using, moved>>

\* -F and -X, whose failure nobody notices; -X of a chain that has rules or is
\* jumped to fails
Flush ==
  /\ doing = "flush" /\ Finish("off")
  /\ \/ rules' = <<>> /\ chain' = (chain /\ hooks > 0) /\ Fine
     \/ rules' = <<>> /\ UNCHANGED chain /\ Fault
     \/ UNCHANGED <<rules, chain>> /\ Fault
  /\ moved' = (moved /\ rules' # <<>>)
  /\ UNCHANGED <<ip, hooks, using>>

-----------------------------------------------------------------------------
DnatNext ==
  \/ \E a \in Ip : MoveServer(a)
  \/ Reboot \/ Break
  \/ \E what \in {"enable", "disable"} : Begin(what)
  \/ EnsureChain \/ EnsureHook \/ EnsureRule \/ Verify \/ VerifyRule
  \/ DeleteRule \/ FindChain \/ Unhook \/ Flush

DnatSpec == DnatInit /\ [][DnatNext]_dnatVars

-----------------------------------------------------------------------------
(* Properties *)

\* What enable() and disable() answer is true of the router, although commands fail
\* and the router reboots between the first command and the last check.  "on": the
\* chain, a jump to it and every redirect to the address of the configuration are
\* there.  "off", when no command of its own was misread: nothing is left, whatever
\* the requests before it left half done, twice, or to former addresses.
AnswersAreTrue ==
  /\ answer = "on" => chain /\ hooks > 0 /\ \A i \in 1 .. Redirects : Has(i)
  /\ answer = "off" /\ ~misled => ~chain /\ hooks = 0 /\ rules = <<>>

\* Unless the server's address changed while rules or a request used the old one,
\* no redirect leads to a wrong address, whatever failed and was tried again.
RulesLeadHere == ~moved => \A n \in DOMAIN rules : rules[n].to = ip
=============================================================================
