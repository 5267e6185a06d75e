---------------------------- MODULE OutsideProofs ----------------------------
(***************************************************************************)
(* The DNAT manager: for any number of redirects, addresses, faults, moves *)
(* and reboots, what the requests answer is true of the router, and no     *)
(* redirect leads to a wrong address.  And all the parts of MCOutside side *)
(* by side: each of them behaves as its own module says.                   *)
(*                                                                         *)
(* The inductive invariant of the DNAT manager says what the commands so   *)
(* far have established.  A request under way has not answered; without    *)
(* the chain there is nothing; before `-F` the jumps are gone unless a     *)
(* command was misread; while the rules are verified those already found   *)
(* are there, or a reboot took all of them; and unless the address moved   *)
(* under it, a request uses the address the rules have.                    *)
(***************************************************************************)
EXTENDS MCOutside, HAPublishingProofs, FirmwareOtaProofs, MessageProofs

NotYet == doing # "idle" => answer = "none"
Bare == ~chain => hooks = 0 /\ rules = <<>>
Unhooked == doing = "flush" /\ ~misled => hooks = 0
Found == doing = "verify" =>
           rules = <<>> \/ (chain /\ hooks > 0 /\ \A i \in 1 .. done : Has(i))
SameAddress == ~moved /\ doing # "idle" => using = ip

DnatInv ==
  /\ DnatTypeOK /\ AnswersAreTrue /\ RulesLeadHere
  /\ NotYet /\ Bare /\ Unhooked /\ Found /\ SameAddress

-----------------------------------------------------------------------------
\* Taking an element out of a sequence leaves only elements that were there
LEMMA RemoveAtKeeps ==
  ASSUME NEW S, NEW s \in Seq(S), NEW place \in DOMAIN s
  PROVE  /\ RemoveAt(s, place) \in Seq(S)
         /\ \A n \in DOMAIN RemoveAt(s, place) : \E m \in DOMAIN s : RemoveAt(s, place)[n] = s[m]
<1> DEFINE front == SubSeq(s, 1, place - 1)
           back == SubSeq(s, place + 1, Len(s))
<1>1. place \in 1 .. Len(s) /\ Len(s) \in Nat
  OBVIOUS
<1>2. front \in Seq(S) /\ Len(front) = place - 1 /\ \A n \in 1 .. place - 1 : front[n] = s[n]
  BY <1>1
<1>3. back \in Seq(S) /\ Len(back) = Len(s) - place
      /\ \A n \in 1 .. Len(s) - place : back[n] = s[place + n]
  BY <1>1
<1>4. RemoveAt(s, place) = front \o back
  BY DEF RemoveAt
<1> HIDE DEF front, back
<1>5. front \o back \in Seq(S) /\ Len(front \o back) = Len(s) - 1
  BY <1>1, <1>2, <1>3
<1>6. ASSUME NEW n \in 1 .. Len(s) - 1
      PROVE  (front \o back)[n] = s[IF n < place THEN n ELSE n + 1]
  BY <1>1, <1>2, <1>3
<1>7. ASSUME NEW n \in 1 .. Len(s) - 1
      PROVE  \E m \in DOMAIN s : (front \o back)[n] = s[m]
  <2>1. (IF n < place THEN n ELSE n + 1) \in DOMAIN s
    BY <1>1
  <2>2. QED
    BY <1>6, <2>1
<1>8. DOMAIN (front \o back) = 1 .. Len(s) - 1
  BY <1>1, <1>5
<1>9. QED
  BY <1>4, <1>5, <1>7, <1>8

-----------------------------------------------------------------------------
\* The rule a request looks for is a rule
LEMMA MineIsARule ==
  ASSUME DnatTypeOK, NEW i \in 1 .. Redirects
  PROVE  Mine(i) \in Rule
BY DEF DnatTypeOK, Mine, Rule

\* What the commands do to the rules leaves a sequence of rules
LEMMA RuleSequences ==
  /\ <<>> \in Seq(Rule)
  /\ \A s \in Seq(Rule), r \in Rule :
       /\ Append(s, r) \in Seq(Rule) /\ Len(Append(s, r)) = Len(s) + 1
       /\ Append(s, r)[Len(s) + 1] = r
       /\ \A n \in DOMAIN s : Append(s, r)[n] = s[n]
OBVIOUS

\* Type correctness
LEMMA DnatTypeStep == DnatTypeOK /\ [DnatNext]_dnatVars => DnatTypeOK'
<1> SUFFICES ASSUME DnatTypeOK, [DnatNext]_dnatVars PROVE DnatTypeOK'
  OBVIOUS
<1> USE DnatAssumption
<1>r. Redirects \in Nat \ {0} /\ 0 \in 0 .. Redirects /\ 0 < Redirects
  BY DnatAssumption
<1>t. ASSUME NEW kind \in {"moves", "faults", "reboots"}, NEW most,
             (kind = "moves" /\ most = MaxMoves) \/ (kind = "faults" /\ most = MaxFaults)
               \/ (kind = "reboots" /\ most = MaxReboots),
             Trouble(kind, most)
      PROVE  troubles' \in [moves : 0 .. MaxMoves, faults : 0 .. MaxFaults, reboots : 0 .. MaxReboots]
  BY <1>t DEF DnatTypeOK, Trouble
<1>f. Fine \/ Fault => /\ misled' \in BOOLEAN
                       /\ troubles' \in [moves : 0 .. MaxMoves, faults : 0 .. MaxFaults,
                                         reboots : 0 .. MaxReboots]
  BY <1>t DEF DnatTypeOK, Fine, Fault
<1>1. ASSUME NEW a \in Ip, MoveServer(a) PROVE DnatTypeOK'
  BY <1>1, <1>t DEF DnatTypeOK, MoveServer, table
<1>2. CASE Reboot
  <2>1. moved' \in BOOLEAN
    BY <1>2, Zenon DEF DnatTypeOK, Reboot
  <2>2. /\ chain' = FALSE /\ hooks' = 0 /\ rules' = <<>> /\ answer' = "none"
        /\ UNCHANGED <<ip, doing, using, done, misled>>
    BY <1>2 DEF Reboot
  <2>3. (troubles \in [moves : 0 .. MaxMoves, faults : 0 .. MaxFaults, reboots : 0 .. MaxReboots])'
    BY <1>2, <1>t DEF Reboot
  <2>4. QED
    BY <2>1, <2>2, <2>3, RuleSequences DEF DnatTypeOK
<1>3. CASE Break
  BY <1>3, <1>f DEF DnatTypeOK, Break, Finish, table
<1>4. ASSUME NEW what \in {"enable", "disable"}, Begin(what) PROVE DnatTypeOK'
  <2>1. doing' \in {"chain", "unrule"} /\ using' = ip /\ done' = 0 /\ misled' = FALSE
        /\ answer' = "none" /\ UNCHANGED <<ip, chain, hooks, rules, moved, troubles>>
    BY <1>4 DEF Begin, Loaded, table
  <2>2. (chain \in BOOLEAN /\ misled \in BOOLEAN /\ moved \in BOOLEAN)'
    BY <2>1 DEF DnatTypeOK
  <2>3. doing' \in {"idle", "chain", "hook", "rules", "verify", "unrule", "unhook", "flush"}
        /\ done' \in 0 .. Redirects /\ doing' # "verify"
    BY <1>r, <2>1
  <2>4. (hooks \in Nat /\ rules \in Seq(Rule) /\ ip \in Ip /\ using \in Ip /\ answer \in {"none", "on", "off", "error"}
         /\ troubles \in [moves : 0 .. MaxMoves, faults : 0 .. MaxFaults, reboots : 0 .. MaxReboots])'
    BY <2>1 DEF DnatTypeOK
  <2>5. QED
    BY <2>2, <2>3, <2>4 DEF DnatTypeOK
<1>5. CASE EnsureChain
  BY <1>5, <1>f DEF DnatTypeOK, EnsureChain, Step
<1>6. CASE EnsureHook
  BY <1>6, <1>f DEF DnatTypeOK, EnsureHook, Step, Finish
<1>7. CASE EnsureRule
  <2>1. done + 1 \in 1 .. Redirects /\ done + 1 \in 0 .. Redirects
    BY <1>7 DEF EnsureRule, DnatTypeOK
  <2>2. rules' \in Seq(Rule)
    BY <1>7, <2>1, MineIsARule, RuleSequences DEF DnatTypeOK, EnsureRule
  <2>3. (Fine \/ Fault) /\ doing' \in {"idle", "rules"} /\ done' \in 0 .. Redirects
        /\ (answer' = "error" \/ answer' = answer) /\ UNCHANGED <<ip, chain, hooks, using, moved>>
    BY <1>7, <2>1 DEF EnsureRule, Step, Finish
  <2>4. (chain \in BOOLEAN /\ misled \in BOOLEAN /\ moved \in BOOLEAN)'
    BY <1>f, <2>3 DEF DnatTypeOK
  <2>5. answer' \in {"none", "on", "off", "error"}
    BY <2>3 DEF DnatTypeOK
  <2>6. doing' \in {"idle", "chain", "hook", "rules", "verify", "unrule", "unhook", "flush"}
        /\ doing' # "verify"
    BY <2>3
  <2>7. (hooks \in Nat /\ ip \in Ip /\ using \in Ip /\ done \in 0 .. Redirects)'
    BY <2>3 DEF DnatTypeOK
  <2>8. (troubles \in [moves : 0 .. MaxMoves, faults : 0 .. MaxFaults, reboots : 0 .. MaxReboots])'
    BY <1>f, <2>3
  <2>9. QED
    BY <2>2, <2>4, <2>5, <2>6, <2>7, <2>8 DEF DnatTypeOK
<1>8. CASE Verify
  BY <1>8, <1>f DEF DnatTypeOK, Verify, Step, Finish, table
<1>9. CASE VerifyRule
  <2>1. done + 1 \in 0 .. Redirects /\ (done + 1 # Redirects => done + 1 < Redirects)
    BY <1>9 DEF DnatTypeOK, VerifyRule
  <2>2. QED
    BY <1>9, <1>f, <2>1 DEF DnatTypeOK, VerifyRule, Step, Finish, table
<1>10. CASE DeleteRule
  <2>1. done + 1 \in 1 .. Redirects /\ done + 1 \in 0 .. Redirects
    BY <1>10 DEF DeleteRule, DnatTypeOK
  <2>2. rules' \in Seq(Rule)
    BY <1>10, RemoveAtKeeps DEF DnatTypeOK, DeleteRule
  <2>3. QED
    BY <1>10, <1>f, <2>1, <2>2 DEF DnatTypeOK, DeleteRule, Step
<1>11. CASE FindChain
  BY <1>11, <1>f DEF DnatTypeOK, FindChain, Step, Finish, table
<1>12. CASE Unhook
  BY <1>12, <1>f DEF DnatTypeOK, Unhook, Step
<1>13. CASE Flush
  <2>1. chain' \in BOOLEAN /\ moved' \in BOOLEAN
    BY <1>13, Zenon DEF DnatTypeOK, Flush
  <2>e. rules' = <<>> \/ rules' = rules
    BY <1>13, Zenon DEF Flush
  <2>r. rules \in Seq(Rule)
    BY DEF DnatTypeOK
  <2>2. rules' \in Seq(Rule)
    BY <2>e, <2>r, RuleSequences
  <2>3. (Fine \/ Fault) /\ doing' = "idle" /\ done' = 0 /\ answer' = "off"
        /\ UNCHANGED <<ip, hooks, using>>
    BY <1>13 DEF Flush, Finish
  <2>4. misled' \in BOOLEAN
    BY <1>f, <2>3
  <2>5. doing' \in {"idle", "chain", "hook", "rules", "verify", "unrule", "unhook", "flush"}
        /\ doing' # "verify" /\ answer' \in {"none", "on", "off", "error"}
    BY <2>3
  <2>6. (hooks \in Nat /\ ip \in Ip /\ using \in Ip /\ done \in 0 .. Redirects)'
    BY <1>r, <2>3 DEF DnatTypeOK
  <2>7. (troubles \in [moves : 0 .. MaxMoves, faults : 0 .. MaxFaults, reboots : 0 .. MaxReboots])'
    BY <1>f, <2>3
  <2>8. QED
    BY <2>1, <2>2, <2>4, <2>5, <2>6, <2>7 DEF DnatTypeOK
<1>14. CASE UNCHANGED dnatVars
  BY <1>14 DEF DnatTypeOK, dnatVars, table
<1>15. QED
  BY <1>1, <1>2, <1>3, <1>4, <1>5, <1>6, <1>7, <1>8, <1>9, <1>10, <1>11, <1>12, <1>13, <1>14 DEF DnatNext

-----------------------------------------------------------------------------
\* No redirect leads to a wrong address as long as the address did not move: a
\* request uses the address it loaded, and what it adds carries that one
LEMMA AddressStep ==
  DnatTypeOK /\ RulesLeadHere /\ SameAddress /\ [DnatNext]_dnatVars
    => RulesLeadHere' /\ SameAddress'
<1> SUFFICES ASSUME DnatTypeOK, RulesLeadHere, SameAddress, [DnatNext]_dnatVars
             PROVE  RulesLeadHere' /\ SameAddress'
  OBVIOUS
<1>k. ASSUME UNCHANGED <<ip, rules, using, moved>>, doing # "idle" \/ doing' = "idle"
      PROVE  RulesLeadHere' /\ SameAddress'
  BY <1>k DEF RulesLeadHere, SameAddress
<1>1. ASSUME NEW a \in Ip, MoveServer(a) PROVE RulesLeadHere' /\ SameAddress'
  <2>1. ~moved' => rules = <<>> /\ doing = "idle"
    BY <1>1, Zenon DEF MoveServer
  <2>2. rules' = rules /\ doing' = doing
    BY <1>1 DEF MoveServer, table
  <2>3. QED
    BY <2>1, <2>2 DEF RulesLeadHere, SameAddress
<1>2. CASE Reboot
  <2>1. ~moved' => ~moved \/ doing = "idle"
    BY <1>2, Zenon DEF Reboot
  <2>2. rules' = <<>> /\ UNCHANGED <<ip, doing, using>>
    BY <1>2 DEF Reboot
  <2>3. QED
    BY <2>1, <2>2 DEF RulesLeadHere, SameAddress
<1>3. CASE Break
  BY <1>3, <1>k DEF Break, Finish, table
<1>4. ASSUME NEW what \in {"enable", "disable"}, Begin(what) PROVE RulesLeadHere' /\ SameAddress'
  <2>1. using' = ip /\ UNCHANGED <<ip, rules, moved>>
    BY <1>4 DEF Begin, Loaded, table
  <2>2. QED
    BY <2>1 DEF RulesLeadHere, SameAddress
<1>5. CASE EnsureChain
  BY <1>5, <1>k DEF EnsureChain
<1>6. CASE EnsureHook
  BY <1>6, <1>k DEF EnsureHook
<1>7. CASE EnsureRule
  <2>0. doing = "rules" /\ done < Redirects /\ UNCHANGED <<ip, using, moved>>
    BY <1>7, Zenon DEF EnsureRule
  <2>1. done + 1 \in 1 .. Redirects
    BY <2>0, DnatAssumption DEF DnatTypeOK
  <2>2. CASE UNCHANGED rules
    BY <2>0, <2>2, <1>k
  <2>3. CASE rules' = Append(rules, Mine(done + 1))
    <3>1. Mine(done + 1) \in Rule /\ Mine(done + 1).to = using
      BY <2>1, MineIsARule DEF Mine
    <3>2. rules \in Seq(Rule)
      BY DEF DnatTypeOK
    <3>3. ASSUME ~moved, NEW n \in DOMAIN rules' PROVE rules'[n].to = ip
      <4>1. using = ip /\ \A m \in DOMAIN rules : rules[m].to = ip
        BY <2>0, <3>3 DEF SameAddress, RulesLeadHere
      <4>2. n \in DOMAIN rules \/ n = Len(rules) + 1
        BY <2>3, <3>1, <3>2, <3>3, RuleSequences
      <4>3. QED
        BY <2>3, <3>1, <3>2, <4>1, <4>2, RuleSequences
    <3>4. QED
      BY <2>0, <3>3 DEF RulesLeadHere, SameAddress
  <2>4. QED
    BY <1>7, <2>2, <2>3, Zenon DEF EnsureRule
<1>8. CASE Verify
  BY <1>8 DEF Verify, RulesLeadHere, SameAddress, table
<1>9. CASE VerifyRule
  BY <1>9, <1>k DEF VerifyRule, table
<1>10. CASE DeleteRule
  <2>1. doing = "unrule" /\ UNCHANGED <<ip, using, moved>>
    BY <1>10 DEF DeleteRule
  <2>2. CASE UNCHANGED rules
    BY <2>1, <2>2, <1>k
  <2>3. ASSUME NEW n \in DOMAIN rules, rules' = RemoveAt(rules, n)
        PROVE  RulesLeadHere' /\ SameAddress'
    <3>1. \A k \in DOMAIN rules' : \E m \in DOMAIN rules : rules'[k] = rules[m]
      BY <2>3, RemoveAtKeeps DEF DnatTypeOK
    <3>2. QED
      BY <2>1, <3>1 DEF RulesLeadHere, SameAddress
  <2>4. QED
    BY <1>10, <2>2, <2>3, Zenon DEF DeleteRule
<1>11. CASE FindChain
  BY <1>11, <1>k DEF FindChain, table
<1>12. CASE Unhook
  BY <1>12, <1>k DEF Unhook
<1>13. CASE Flush
  <2>1. ~moved' => ~moved \/ rules' = <<>>
    BY <1>13, Zenon DEF Flush
  <2>2. rules' = <<>> \/ rules' = rules
    BY <1>13, Zenon DEF Flush
  <2>3. doing' = "idle" /\ ip' = ip
    BY <1>13 DEF Flush, Finish
  <2>4. QED
    BY <2>1, <2>2, <2>3 DEF RulesLeadHere, SameAddress
<1>14. CASE UNCHANGED dnatVars
  BY <1>14 DEF RulesLeadHere, SameAddress, dnatVars, table
<1>15. QED
  BY <1>1, <1>2, <1>3, <1>4, <1>5, <1>6, <1>7, <1>8, <1>9, <1>10, <1>11, <1>12, <1>13, <1>14 DEF DnatNext

-----------------------------------------------------------------------------
\* What the answers rest on
Truth == AnswersAreTrue /\ NotYet /\ Bare /\ Unhooked /\ Found

\* A step that neither verifies, nor flushes, nor answers what it found, and leaves
\* nothing outside the chain when there is none
LEMMA SilentStep ==
  ASSUME Bare', doing' \notin {"verify", "flush"}, answer' \in {"none", "error"},
         doing' = "idle" \/ answer' = "none"
  PROVE  Truth'
BY DEF Truth, AnswersAreTrue, NotYet, Bare, Unhooked, Found

\* What is answered stays true, and what the next answer rests on is kept
LEMMA TruthStep == DnatTypeOK /\ Truth /\ [DnatNext]_dnatVars => Truth'
<1> SUFFICES ASSUME DnatTypeOK, Truth, [DnatNext]_dnatVars PROVE Truth'
  OBVIOUS
<1>n. doing # "idle" => answer = "none"
  BY DEF Truth, NotYet
<1>b. ~chain => hooks = 0 /\ rules = <<>>
  BY DEF Truth, Bare
<1>h. hooks \in Nat /\ done \in Nat /\ Redirects \in Nat
  BY DnatAssumption DEF DnatTypeOK
<1>1. ASSUME NEW a \in Ip, MoveServer(a) PROVE Truth'
  <2>1. answer' = "none" /\ UNCHANGED <<chain, hooks, rules, doing, using, done, misled>>
    BY <1>1 DEF MoveServer, table
  <2>2. QED
    BY <2>1 DEF Truth, AnswersAreTrue, NotYet, Bare, Unhooked, Found, Has, Mine
<1>2. CASE Reboot
  <2>1. answer' = "none" /\ chain' = FALSE /\ hooks' = 0 /\ rules' = <<>>
    BY <1>2 DEF Reboot
  <2>2. QED
    BY <2>1 DEF Truth, AnswersAreTrue, NotYet, Bare, Unhooked, Found
<1>3. CASE Break
  <2>1. doing' = "idle" /\ answer' = "error" /\ UNCHANGED <<chain, hooks, rules>>
    BY <1>3 DEF Break, Finish, table
  <2>2. QED
    BY <1>b, <2>1, SilentStep DEF Bare
<1>4. ASSUME NEW what \in {"enable", "disable"}, Begin(what) PROVE Truth'
  <2>1. doing' \in {"chain", "unrule"} /\ answer' = "none" /\ UNCHANGED <<chain, hooks, rules>>
    BY <1>4 DEF Begin, table
  <2>2. QED
    BY <1>b, <2>1, SilentStep DEF Bare
<1>5. CASE EnsureChain
  <2>1. doing = "chain" /\ chain' = TRUE /\ doing' = "hook" /\ answer' = answer
    BY <1>5 DEF EnsureChain, Step
  <2>2. QED
    BY <1>n, <2>1, SilentStep DEF Bare
<1>6. CASE EnsureHook
  <2>1. doing = "hook" /\ UNCHANGED <<chain, rules>>
    BY <1>6 DEF EnsureHook
  <2>2. CASE ~chain
    <3>1. doing' = "idle" /\ answer' = "error" /\ hooks' = hooks
      BY <1>6, <2>2 DEF EnsureHook, Finish
    <3>2. QED
      BY <1>b, <2>1, <3>1, SilentStep DEF Bare
  <2>3. CASE chain
    <3>1. doing' = "rules" /\ answer' = answer
      BY <1>6, <2>3 DEF EnsureHook, Step
    <3>2. QED
      BY <1>n, <2>1, <2>3, <3>1, SilentStep DEF Bare
  <2>4. QED
    BY <2>2, <2>3
<1>7. CASE EnsureRule
  <2>1. doing = "rules" /\ UNCHANGED <<chain, hooks>>
    BY <1>7 DEF EnsureRule
  <2>2. CASE ~chain
    <3>1. doing' = "idle" /\ answer' = "error" /\ rules' = rules
      BY <1>7, <2>2 DEF EnsureRule, Finish
    <3>2. QED
      BY <1>b, <2>1, <3>1, SilentStep DEF Bare
  <2>3. CASE chain
    <3>1. doing' = "rules" /\ answer' = answer
      BY <1>7, <2>3 DEF EnsureRule, Step
    <3>2. QED
      BY <1>n, <2>1, <2>3, <3>1, SilentStep DEF Bare
  <2>4. QED
    BY <2>2, <2>3
<1>8. CASE Verify
  <2>1. doing = "rules" /\ UNCHANGED <<chain, hooks, rules>>
    BY <1>8 DEF Verify, table
  <2>2. CASE doing' = "idle" /\ answer' = "error"
    BY <1>b, <2>1, <2>2, SilentStep DEF Bare
  <2>3. CASE chain /\ hooks > 0 /\ Step("verify", 0)
    BY <1>b, <1>n, <2>1, <2>3
       DEF Truth, AnswersAreTrue, NotYet, Bare, Unhooked, Found, Step
  <2>4. QED
    BY <1>8, <2>2, <2>3, Zenon DEF Verify, Finish
<1>9. CASE VerifyRule
  <2>1. doing = "verify" /\ UNCHANGED <<chain, hooks, rules, using>>
    BY <1>9 DEF VerifyRule, table
  <2>2. CASE doing' = "idle" /\ answer' = "error"
    BY <1>b, <2>1, <2>2, SilentStep DEF Bare
  <2>3. CASE Confirmed(done + 1) /\ (IF done + 1 = Redirects THEN Finish("on")
                                     ELSE Step("verify", done + 1))
    <3>1. rules # <<>>
      BY <2>3 DEF Confirmed, Has
    <3>2. chain /\ hooks > 0 /\ \A i \in 1 .. done : Has(i)
      BY <2>1, <3>1 DEF Truth, Found
    <3>3. \A i \in 1 .. done + 1 : Has(i)
      BY <1>h, <2>3, <3>2 DEF Confirmed
    <3>4. \A i \in 1 .. done + 1 : Has(i)'
      BY <2>1, <3>3 DEF Has, Mine
    <3>5. CASE done + 1 = Redirects
      BY <2>1, <2>3, <3>2, <3>4, <3>5
         DEF Truth, AnswersAreTrue, NotYet, Bare, Unhooked, Found, Finish
    <3>6. CASE done + 1 # Redirects
      <4>1. doing' = "verify" /\ done' = done + 1 /\ answer' = "none"
        BY <1>n, <2>1, <2>3, <3>6 DEF Step
      <4>2. QED
        BY <2>1, <3>2, <3>4, <4>1
           DEF Truth, AnswersAreTrue, NotYet, Bare, Unhooked, Found
    <3>7. QED
      BY <3>5, <3>6
  <2>4. QED
    BY <1>9, <2>2, <2>3, Zenon DEF VerifyRule, Finish
<1>10. CASE DeleteRule
  <2>1. doing = "unrule" /\ UNCHANGED <<chain, hooks>> /\ doing' = "unrule" /\ answer' = answer
    BY <1>10 DEF DeleteRule, Step
  <2>2. rules = <<>> => rules' = rules
    BY <1>10 DEF DeleteRule
  <2>3. QED
    BY <1>b, <1>n, <2>1, <2>2, SilentStep DEF Bare
<1>11. CASE FindChain
  <2>1. doing = "unrule" /\ UNCHANGED <<chain, hooks, rules>>
    BY <1>11 DEF FindChain, table
  <2>2. CASE chain /\ Step("unhook", 0)
    BY <1>n, <2>1, <2>2, SilentStep DEF Bare, Step
  <2>3. CASE Finish("off") /\ IF chain THEN Fault ELSE Fine
    <3>1. doing' = "idle" /\ answer' = "off" /\ (chain => misled' = TRUE)
      BY <2>3 DEF Finish, Fault
    <3>2. QED
      BY <1>b, <2>1, <3>1 DEF Truth, AnswersAreTrue, NotYet, Bare, Unhooked, Found
  <2>4. QED
    BY <1>11, <2>2, <2>3, Zenon DEF FindChain
<1>12. CASE Unhook
  <2>1. doing = "unhook" /\ UNCHANGED <<chain, rules>>
    BY <1>12 DEF Unhook
  <2>2. CASE hooks > 0 /\ hooks' = hooks - 1 /\ Step("unhook", 0)
    BY <1>b, <1>n, <2>1, <2>2, SilentStep DEF Bare, Step
  <2>3. CASE (IF hooks > 0 THEN Fault ELSE Fine) /\ Step("flush", 0) /\ UNCHANGED hooks
    <3>1. doing' = "flush" /\ answer' = "none" /\ (hooks > 0 => misled' = TRUE)
      BY <1>n, <2>1, <2>3 DEF Step, Fault
    <3>2. QED
      BY <1>b, <1>h, <2>1, <2>3, <3>1 DEF Truth, AnswersAreTrue, NotYet, Bare, Unhooked, Found
  <2>4. QED
    BY <1>12, <2>2, <2>3, Zenon DEF Unhook
<1>13. CASE Flush
  <2>1. doing = "flush" /\ doing' = "idle" /\ answer' = "off" /\ hooks' = hooks
    BY <1>13 DEF Flush, Finish
  <2>2. ~misled => hooks = 0
    BY <2>1 DEF Truth, Unhooked
  <2>3. CASE rules' = <<>> /\ chain' = (chain /\ hooks > 0) /\ Fine
    <3>1. misled' = misled
      BY <2>3 DEF Fine
    <3>2. chain' => hooks > 0
      BY <2>3, Zenon
    <3>3. ~chain' => hooks = 0
      <4>1. ~chain' => ~chain \/ ~(hooks > 0)
        BY <2>3, Zenon
      <4>2. ~chain => hooks = 0
        BY <1>b, Zenon DEF Bare
      <4>3. ~(hooks > 0) => hooks = 0
        BY <1>h
      <4>4. QED
        BY <4>1, <4>2, <4>3, Zenon
    <3>4. QED
      BY <1>h, <2>1, <2>2, <2>3, <3>1, <3>2, <3>3
         DEF Truth, AnswersAreTrue, NotYet, Bare, Unhooked, Found
  <2>4. CASE (rules' = <<>> \/ rules' = rules) /\ chain' = chain /\ Fault
    BY <1>b, <2>1, <2>4 DEF Truth, AnswersAreTrue, NotYet, Bare, Unhooked, Found, Fault
  <2>5. QED
    BY <1>13, <2>3, <2>4, Zenon DEF Flush
<1>14. CASE UNCHANGED dnatVars
  BY <1>14 DEF Truth, AnswersAreTrue, NotYet, Bare, Unhooked, Found, Has, Mine, dnatVars, table
<1>15. QED
  BY <1>1, <1>2, <1>3, <1>4, <1>5, <1>6, <1>7, <1>8, <1>9, <1>10, <1>11, <1>12, <1>13, <1>14 DEF DnatNext

-----------------------------------------------------------------------------
LEMMA DnatInvInit == DnatInit => DnatInv
<1> SUFFICES ASSUME DnatInit PROVE DnatInv
  OBVIOUS
<1>1. DnatTypeOK
  <2>1. ip \in Ip /\ using \in Ip /\ chain \in BOOLEAN /\ misled \in BOOLEAN /\ moved \in BOOLEAN
    BY DEF DnatInit
  <2>2. rules \in Seq(Rule)
    BY RuleSequences DEF DnatInit
  <2>3. hooks \in Nat /\ done \in 0 .. Redirects /\ doing = "idle" /\ answer = "none"
    BY DnatAssumption DEF DnatInit
  <2>4. troubles \in [moves : 0 .. MaxMoves, faults : 0 .. MaxFaults, reboots : 0 .. MaxReboots]
    BY DnatAssumption DEF DnatInit
  <2>5. QED
    BY <2>1, <2>2, <2>3, <2>4 DEF DnatTypeOK
<1>2. QED
  BY <1>1 DEF DnatInit, DnatInv, AnswersAreTrue, RulesLeadHere, NotYet, Bare, Unhooked, Found,
              SameAddress

LEMMA DnatInvStep == DnatInv /\ [DnatNext]_dnatVars => DnatInv'
BY DnatTypeStep, AddressStep, TruthStep DEF DnatInv, Truth

\* The invariant of the specification
THEOREM DnatInvariance == DnatSpec => []DnatInv
BY DnatInvInit, DnatInvStep, PTL DEF DnatSpec

\* enable() and disable() answer the truth, for any number of redirects, faults,
\* reboots and moves
THEOREM AnswersTrue == DnatSpec => []AnswersAreTrue
<1>1. DnatInv => AnswersAreTrue
  BY DEF DnatInv
<1>2. QED
  BY <1>1, DnatInvariance, PTL

\* No redirect leads to a wrong address unless the address moved under it
THEOREM NoWrongRedirect == DnatSpec => []RulesLeadHere
<1>1. DnatInv => RulesLeadHere
  BY DEF DnatInv
<1>2. QED
  BY <1>1, DnatInvariance, PTL

-----------------------------------------------------------------------------
(* The parts side by side                                                  *)

\* No part of a behaviour of all of them does what its own module does not
LEMMA EachPart ==
  Spec => PubSpec /\ OtaSpec /\ DecoderSpec /\ WireSpec /\ DnatSpec
<1>1. Init => PubInit /\ OtaInit /\ DecoderInit /\ WireInit /\ DnatInit
  BY DEF Init
<1>2. ASSUME [Next]_vars
      PROVE  /\ [PubNext]_pubVars /\ [OtaNext]_otaVars /\ [DecoderNext]_decoderVars
             /\ [WireNext]_wireVars /\ [DnatNext]_dnatVars
  <2>1. CASE UNCHANGED vars
    BY <2>1 DEF vars, Parts
  <2>2. CASE Next
    BY <2>2 DEF Next
  <2>3. QED
    BY <1>2, <2>1, <2>2
<1>3. QED
  BY <1>1, <1>2, PTL DEF Spec, PubSpec, OtaSpec, DecoderSpec, WireSpec, DnatSpec

\* Whatever the parts around the session table do, side by side and under the faults of
\* each: their variables keep their types
THEOREM OutsideTypes == Spec => []TypesOK
<1>1. DnatSpec => []DnatTypeOK
  <2>1. DnatInv => DnatTypeOK
    BY DEF DnatInv
  <2>2. QED
    BY <2>1, DnatInvariance, PTL
<1>2. TypesOK <=> PubTypeOK /\ DnatTypeOK /\ OtaTypeOK /\ DecoderTypeOK /\ WireTypeOK
  BY DEF TypesOK
<1>3. QED
  BY <1>1, <1>2, EachPart, PublishingTypes, OtaTypes, DecoderTypes, WireTypes, PTL

\* And each part keeps what its own theorems promise: the discovery of a device, the
\* answers and the rules of the router, the root certificate, the readings of a device,
\* what was answered to it, and the packets of its connection
THEOREM OutsideIsSafe ==
  Spec => /\ []DiscoveryFollowsLink /\ []AnswersAreTrue /\ []RulesLeadHere
          /\ []EnableHeals /\ OneRoot
          /\ []OneReport /\ []AnsweredIsKept /\ []HandlerIsInStep
BY EachPart, DiscoveryIsLinked, AnswersTrue, NoWrongRedirect, EnableLeavesOneAddress, RootIsKept,
   ReadingsOfOneReport, AnswerMeansKept, StaysInStep, PTL
=============================================================================
