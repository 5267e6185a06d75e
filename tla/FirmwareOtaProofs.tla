-------------------------- MODULE FirmwareOtaProofs --------------------------
(***************************************************************************)
(* For any number of web threads, addresses, requests, failures and        *)
(* crashes: the provisioned root stays and signs every leaf, and an        *)
(* "Enable & Build" that ran alone leaves one address everywhere.          *)
(***************************************************************************)
EXTENDS FirmwareOta, TLAPS

RootCrt == <<"root", "crt">>
RootKey == <<"root", "key">>
BaseNames == Names(BaseFiles)
Qms == Names(QmsFiles)
Leaves == Names(LeafFiles)

-----------------------------------------------------------------------------
(* Files and sequences of files *)

LEMMA NamesOfPair == \A p : Names(PairOf(p)) = {<<p, "crt">>, <<p, "key">>}
<1> SUFFICES ASSUME NEW p PROVE Names(PairOf(p)) = {<<p, "crt">>, <<p, "key">>}
  OBVIOUS
<1>1. DOMAIN PairOf(p) = {1, 2} /\ PairOf(p)[1] = <<p, "crt">> /\ PairOf(p)[2] = <<p, "key">>
  BY DEF PairOf
<1>2. QED
  BY <1>1 DEF Names

LEMMA NamesOfConcat ==
  ASSUME NEW S, NEW s \in Seq(S), NEW t \in Seq(S)
  PROVE  s \o t \in Seq(S) /\ Names(s \o t) = Names(s) \cup Names(t)
<1>1. /\ s \o t \in Seq(S) /\ Len(s \o t) = Len(s) + Len(t)
      /\ \A n \in 1 .. Len(s) + Len(t) :
           (s \o t)[n] = IF n <= Len(s) THEN s[n] ELSE t[n - Len(s)]
  OBVIOUS
<1>2. Len(s) \in Nat /\ Len(t) \in Nat
  OBVIOUS
<1>3. DOMAIN s = 1 .. Len(s) /\ DOMAIN t = 1 .. Len(t) /\ DOMAIN (s \o t) = 1 .. Len(s) + Len(t)
  BY <1>1
<1>4. ASSUME NEW f \in Names(s \o t) PROVE f \in Names(s) \cup Names(t)
  <2>1. PICK n \in 1 .. Len(s) + Len(t) : f = (s \o t)[n]
    BY <1>3 DEF Names
  <2>2. CASE n <= Len(s)
    BY <1>1, <1>2, <1>3, <2>1, <2>2 DEF Names
  <2>3. CASE n > Len(s)
    <3>1. n - Len(s) \in DOMAIN t /\ f = t[n - Len(s)]
      BY <1>1, <1>2, <1>3, <2>1, <2>3
    <3>2. QED
      BY <3>1 DEF Names
  <2>4. QED
    BY <1>2, <2>2, <2>3
<1>5. ASSUME NEW f \in Names(s) PROVE f \in Names(s \o t)
  <2>1. PICK n \in 1 .. Len(s) : f = s[n]
    BY <1>3 DEF Names
  <2>2. n \in DOMAIN (s \o t) /\ (s \o t)[n] = f
    BY <1>1, <1>2, <1>3, <2>1
  <2>3. QED
    BY <2>2 DEF Names
<1>6. ASSUME NEW f \in Names(t) PROVE f \in Names(s \o t)
  <2>1. PICK n \in 1 .. Len(t) : f = t[n]
    BY <1>3 DEF Names
  <2>2. n + Len(s) \in DOMAIN (s \o t) /\ (s \o t)[n + Len(s)] = f
    BY <1>1, <1>2, <1>3, <2>1
  <2>3. QED
    BY <2>2 DEF Names
<1>7. QED
  BY <1>1, <1>4, <1>5, <1>6

LEMMA NamesOfThree ==
  ASSUME NEW S, NEW s \in Seq(S), NEW t \in Seq(S), NEW u \in Seq(S)
  PROVE  s \o t \o u \in Seq(S) /\ Names(s \o t \o u) = Names(s) \cup Names(t) \cup Names(u)
<1> DEFINE st == s \o t
<1>1. st \in Seq(S) /\ Names(st) = Names(s) \cup Names(t)
  BY NamesOfConcat
<1> HIDE DEF st
<1>2. st \o u \in Seq(S) /\ Names(st \o u) = Names(st) \cup Names(u)
  BY <1>1, NamesOfConcat
<1>3. QED
  BY <1>1, <1>2 DEF st

LEMMA NamesOfTail ==
  ASSUME NEW S, NEW s \in Seq(S), s # <<>>
  PROVE  /\ Head(s) \in S /\ Head(s) \in Names(s)
         /\ Tail(s) \in Seq(S)
         /\ Names(Tail(s)) \subseteq Names(s)
         /\ Names(s) \subseteq {Head(s)} \cup Names(Tail(s))
         /\ Tail(s) # <<>> => Len(s) # 1
<1>1. /\ Len(s) \in Nat /\ Len(s) > 0 /\ DOMAIN s = 1 .. Len(s) /\ Head(s) = s[1]
      /\ Tail(s) \in Seq(S) /\ Len(Tail(s)) = Len(s) - 1 /\ DOMAIN Tail(s) = 1 .. Len(s) - 1
      /\ \A n \in 1 .. Len(s) - 1 : Tail(s)[n] = s[n + 1]
  OBVIOUS
<1>2. Names(Tail(s)) \subseteq Names(s)
  BY <1>1 DEF Names
<1>3. ASSUME NEW f \in Names(s), f # Head(s) PROVE f \in Names(Tail(s))
  <2>1. PICK n \in 1 .. Len(s) : f = s[n]
    BY <1>1 DEF Names
  <2>2. n - 1 \in DOMAIN Tail(s) /\ Tail(s)[n - 1] = f
    BY <1>1, <1>3, <2>1
  <2>3. QED
    BY <2>2 DEF Names
<1>4. Head(s) \in S /\ Head(s) \in Names(s)
  BY <1>1 DEF Names
<1>5. Tail(s) # <<>> => Len(s) # 1
  BY <1>1
<1>6. QED
  BY <1>1, <1>2, <1>3, <1>4, <1>5

LEMMA NamesOfEmpty == Names(<<>>) = {}
BY DEF Names

\* The files and their groups
LEMMA FileFacts ==
  /\ BaseFiles \o QmsFiles \in Seq(File) /\ QmsFiles \in Seq(File) /\ LeafFiles \in Seq(File)
  /\ BaseFiles \o QmsFiles # <<>> /\ QmsFiles # <<>> /\ LeafFiles # <<>>
  /\ Head(BaseFiles \o QmsFiles) = RootCrt
  /\ File = BaseNames \cup Qms
  /\ RootCrt \in BaseNames \ Leaves /\ RootKey \in BaseNames \ Leaves /\ Qms \subseteq Leaves
  /\ BaseNames \subseteq {RootCrt, RootKey} \cup Leaves
  /\ Leaves \subseteq File /\ BaseNames \subseteq File
  /\ BaseNames \cap Qms = {}
  /\ \A p \in Service : <<p, "crt">> \in Leaves /\ <<p, "key">> \in Leaves
  /\ Names(PairOf("root")) = {RootCrt, RootKey}
<1>1. ASSUME NEW p \in {"root"} \cup Service PROVE PairOf(p) \in Seq(File)
  <2>1. <<p, "crt">> \in File /\ <<p, "key">> \in File
    BY DEF File
  <2>2. QED
    BY <2>1 DEF PairOf
<1>2. /\ PairOf("root") \in Seq(File) /\ PairOf("mef") \in Seq(File)
      /\ PairOf("brk2") \in Seq(File) /\ PairOf("qms") \in Seq(File)
  BY <1>1 DEF Service
<1>3. BaseFiles \in Seq(File)
      /\ BaseNames = Names(PairOf("root")) \cup Names(PairOf("mef")) \cup Names(PairOf("brk2"))
  BY <1>2, NamesOfThree DEF BaseFiles, BaseNames
<1>4. QmsFiles \in Seq(File) /\ Qms = Names(PairOf("qms"))
  BY <1>2 DEF QmsFiles, Qms
<1>5. LeafFiles \in Seq(File)
      /\ Leaves = Names(PairOf("mef")) \cup Names(PairOf("brk2")) \cup Names(PairOf("qms"))
  BY <1>2, NamesOfThree DEF LeafFiles, QmsFiles, Leaves
<1>6. BaseFiles \o QmsFiles \in Seq(File)
  BY <1>3, <1>4
<1>7. /\ BaseFiles \o QmsFiles # <<>> /\ QmsFiles # <<>> /\ LeafFiles # <<>>
      /\ Head(BaseFiles \o QmsFiles) = RootCrt
  BY DEF BaseFiles, QmsFiles, LeafFiles, PairOf, RootCrt
<1>8. /\ BaseNames = {RootCrt, RootKey, <<"mef", "crt">>, <<"mef", "key">>, <<"brk2", "crt">>, <<"brk2", "key">>}
      /\ Qms = {<<"qms", "crt">>, <<"qms", "key">>}
      /\ Leaves = {<<"mef", "crt">>, <<"mef", "key">>, <<"brk2", "crt">>, <<"brk2", "key">>,
                   <<"qms", "crt">>, <<"qms", "key">>}
  BY <1>3, <1>4, <1>5, NamesOfPair DEF RootCrt, RootKey
<1>9. File = BaseNames \cup Qms
  BY <1>8 DEF File, Service, RootCrt, RootKey
<1>10. /\ RootCrt \in BaseNames \ Leaves /\ RootKey \in BaseNames \ Leaves
       /\ BaseNames \subseteq {RootCrt, RootKey} \cup Leaves /\ BaseNames \cap Qms = {}
  BY <1>8 DEF RootCrt, RootKey
<1>11. /\ Qms \subseteq Leaves /\ Leaves \subseteq File /\ BaseNames \subseteq File
  BY <1>8, <1>9
<1>12. \A p \in Service : <<p, "crt">> \in Leaves /\ <<p, "key">> \in Leaves
  BY <1>8 DEF Service
<1>13. Names(PairOf("root")) = {RootCrt, RootKey}
  BY NamesOfPair DEF RootCrt, RootKey
<1>14. QED
  BY <1>4, <1>5, <1>6, <1>7, <1>9, <1>10, <1>11, <1>12, <1>13

LEMMA WholeMeans ==
  /\ Whole(BaseFiles) <=> \A f \in BaseNames : disk[f] # 0
  /\ Whole(QmsFiles) <=> \A f \in Qms : disk[f] # 0
  /\ Existing(BaseFiles) = {} <=> \A f \in BaseNames : disk[f] = 0
  /\ Existing(QmsFiles) = {} <=> \A f \in Qms : disk[f] = 0
BY DEF Whole, Existing, BaseNames, Qms

-----------------------------------------------------------------------------
(* The certificate directory: what each operation of a writer does          *)

\* A writer that has files to write has a number for them
Numbered == \A x \in Writer : todo[x] # <<>> => serial[x] # 0

\* Reissued leaves are signed by the root on disk
WebWrites ==
  \A x \in Web : todo[x] # <<>> =>
    issues[serial[x]].root = disk[RootKey] /\ Names(todo[x]) \subseteq Leaves

\* The command either makes a root and everything else, and nothing else is
\* there, the certificate of the root first; or it adds the QMS pair
MakesRoot(n) ==
  /\ issues[n].root = n
  /\ \A f \in File : disk[f] \in {0, n}
  /\ todo[Command] = BaseFiles \o QmsFiles \/ disk[RootCrt] = n
AddsQms(n) ==
  /\ \A f \in BaseNames : disk[f] # 0
  /\ issues[n].root = disk[RootKey] /\ issues[n].root # n
  /\ Names(todo[Command]) \subseteq Qms
CommandWrites ==
  todo[Command] # <<>> => MakesRoot(serial[Command]) \/ AddsQms(serial[Command])

\* Without a root certificate the directory is empty
RootFirst == disk[RootCrt] = 0 => \A f \in File : disk[f] = 0

\* Every leaf beside a complete set is signed by its root
SignedByRoot ==
  (\A f \in BaseNames : disk[f] # 0) =>
    \A f \in Leaves : disk[f] # 0 => issues[disk[f]].root = disk[RootKey]

CertInv ==
  /\ CertTypeOK
  /\ Numbered /\ WebWrites /\ CommandWrites /\ RootFirst /\ SignedByRoot

WebRests == \A x \in Web : todo[x] = <<>>

LEMMA IssueEffect ==
  ASSUME CertTypeOK, NEW x \in Writer, NEW root \in 1 .. MaxIssues,
         NEW ip \in Address \cup {NoAddress}, NEW files \in Seq(File), Issue(x, root, ip, files)
  PROVE  /\ CertTypeOK' /\ disk' = disk
         /\ Len(issues) \in Nat /\ Len(issues) < MaxIssues /\ Len(issues') = Len(issues) + 1
         /\ issues'[Len(issues) + 1] = [root |-> root, ip |-> ip]
         /\ \A n \in 1 .. Len(issues) : issues'[n] = issues[n]
         /\ serial'[x] = Len(issues) + 1 /\ todo'[x] = files
         /\ \A y \in Writer \ {x} : serial'[y] = serial[y] /\ todo'[y] = todo[y]
<1> USE CertificatesAssumption DEF CertTypeOK, Issue
<1>1. issues \in Seq([root : 1 .. MaxIssues, ip : Address \cup {NoAddress}]) /\ Len(issues) \in Nat
  OBVIOUS
<1>2. /\ issues' \in Seq([root : 1 .. MaxIssues, ip : Address \cup {NoAddress}])
      /\ Len(issues') = Len(issues) + 1
      /\ issues'[Len(issues) + 1] = [root |-> root, ip |-> ip]
      /\ \A n \in 1 .. Len(issues) : issues'[n] = issues[n]
  BY <1>1
<1>3. /\ serial'[x] = Len(issues) + 1 /\ todo'[x] = files /\ disk' = disk
      /\ \A y \in Writer \ {x} : serial'[y] = serial[y] /\ todo'[y] = todo[y]
  OBVIOUS
<1>4. todo' \in [Writer -> Seq(File)]
  OBVIOUS
<1>5. serial' \in [Writer -> 0 .. Len(issues')]
  BY <1>1, <1>2
<1>6. disk' \in [File -> 0 .. Len(issues')]
  BY <1>1, <1>2
<1>7. Len(issues') <= MaxIssues
  BY <1>1, <1>2
<1> HIDE DEF Issue
<1>8. CertTypeOK'
  BY <1>2, <1>4, <1>5, <1>6, <1>7
<1>9. Len(issues) < MaxIssues
  BY DEF Issue
<1>10. QED
  BY <1>1, <1>2, <1>3, <1>8, <1>9

LEMMA WriteNextEffect ==
  ASSUME CertTypeOK, NEW x \in Writer, WriteNext(x)
  PROVE  /\ CertTypeOK' /\ issues' = issues
         /\ todo[x] # <<>>
         /\ Head(todo[x]) \in File /\ Head(todo[x]) \in Names(todo[x])
         /\ disk' = [disk EXCEPT ![Head(todo[x])] = serial[x]]
         /\ Names(todo'[x]) \subseteq Names(todo[x])
         /\ Names(todo[x]) \subseteq {Head(todo[x])} \cup Names(todo'[x])
         /\ todo'[x] # <<>> => serial'[x] = serial[x]
         /\ \A y \in Writer \ {x} : serial'[y] = serial[y] /\ todo'[y] = todo[y]
<1>1. todo[x] \in Seq(File) /\ todo[x] # <<>>
  BY DEF CertTypeOK, WriteNext
<1>2. /\ todo' = [todo EXCEPT ![x] = Tail(todo[x])] /\ issues' = issues
      /\ disk' = [disk EXCEPT ![Head(todo[x])] = serial[x]]
      /\ serial' = [y \in Writer |-> IF y \in (IF Len(todo[x]) = 1 THEN {x} ELSE {})
                                     THEN 0 ELSE serial[y]]
  BY DEF WriteNext, Done
<1>3. todo'[x] = Tail(todo[x]) /\ \A y \in Writer \ {x} : todo'[y] = todo[y]
  BY <1>2 DEF CertTypeOK
<1>4. /\ Head(todo[x]) \in File /\ Head(todo[x]) \in Names(todo[x])
      /\ Tail(todo[x]) \in Seq(File)
      /\ Names(todo'[x]) \subseteq Names(todo[x])
      /\ Names(todo[x]) \subseteq {Head(todo[x])} \cup Names(todo'[x])
      /\ todo'[x] # <<>> => Len(todo[x]) # 1
  BY <1>1, <1>3, NamesOfTail
<1>5. todo' \in [Writer -> Seq(File)]
  BY <1>2, <1>4 DEF CertTypeOK
<1>6. serial' \in [Writer -> 0 .. Len(issues)]
  BY <1>2 DEF CertTypeOK
<1>7. disk' \in [File -> 0 .. Len(issues)]
  BY <1>2, <1>4 DEF CertTypeOK
<1>8. todo'[x] # <<>> => serial'[x] = serial[x]
  BY <1>2, <1>4
<1>9. \A y \in Writer \ {x} : serial'[y] = serial[y]
  BY <1>2
<1>10. CertTypeOK'
  BY <1>2, <1>5, <1>6, <1>7 DEF CertTypeOK
<1>11. QED
  BY <1>1, <1>2, <1>3, <1>4, <1>8, <1>9, <1>10

LEMMA DoneEffect ==
  ASSUME CertTypeOK, NEW gone \in SUBSET Writer, Done(gone), issues' = issues,
         todo' = [x \in Writer |-> IF x \in gone THEN <<>> ELSE todo[x]]
  PROVE  /\ todo' \in [Writer -> Seq(File)] /\ serial' \in [Writer -> 0 .. Len(issues')]
         /\ \A x \in Writer : todo'[x] # <<>> => todo'[x] = todo[x] /\ serial'[x] = serial[x]
BY DEF CertTypeOK, Done

(* Every operation keeps the invariant of the directory.                    *)

LEMMA GenerateKeeps == CertInv /\ WebRests /\ Generate => CertInv'
<1> SUFFICES ASSUME CertInv, WebRests, Generate PROVE CertInv'
  OBVIOUS
<1> DEFINE n == Len(issues) + 1
<1> USE CertificatesAssumption
<1>1. /\ CertTypeOK /\ todo[Command] = <<>> /\ Command \in Writer
      /\ \A x \in Web : x \in Writer \ {Command}
  BY DEF CertInv, Generate, Writer
<1>2. CASE FromScratch /\ Issue(Command, n, NoAddress, BaseFiles \o QmsFiles)
  <2>1. n \in 1 .. MaxIssues
    BY <1>1, <1>2 DEF CertTypeOK, Issue
  <2>2. /\ CertTypeOK' /\ disk' = disk /\ issues'[n] = [root |-> n, ip |-> NoAddress]
        /\ serial'[Command] = n /\ todo'[Command] = BaseFiles \o QmsFiles
        /\ \A y \in Writer \ {Command} : serial'[y] = serial[y] /\ todo'[y] = todo[y]
    <3>1. NoAddress \in Address \cup {NoAddress} /\ BaseFiles \o QmsFiles \in Seq(File)
      BY FileFacts
    <3> DEFINE all == BaseFiles \o QmsFiles
    <3>2. Issue(Command, n, NoAddress, all)
      BY <1>2
    <3> HIDE DEF n, all
    <3>3. all \in Seq(File)
      BY <3>1 DEF all
    <3>4. /\ CertTypeOK' /\ disk' = disk /\ issues'[Len(issues) + 1] = [root |-> n, ip |-> NoAddress]
          /\ serial'[Command] = Len(issues) + 1 /\ todo'[Command] = all
          /\ \A y \in Writer \ {Command} : serial'[y] = serial[y] /\ todo'[y] = todo[y]
      BY <1>1, <2>1, <3>1, <3>2, <3>3, IssueEffect
    <3>5. QED
      BY <3>4 DEF n, all
  <2>3. disk[RootCrt] = 0
    BY <1>2, FileFacts, WholeMeans DEF FromScratch
  <2>4. \A f \in File : disk'[f] = 0
    BY <2>2, <2>3 DEF CertInv, RootFirst
  <2>5. Numbered'
    BY <2>1, <2>2 DEF CertInv, Numbered
  <2>6. WebWrites'
    BY <1>1, <2>2 DEF WebWrites, WebRests
  <2>7. issues'[n].root = n
    BY <2>2
  <2>8. MakesRoot(serial[Command])'
    BY <2>2, <2>4, <2>7 DEF MakesRoot
  <2>9. CommandWrites'
    BY <2>2, <2>8 DEF CommandWrites
  <2>10. RootFirst' /\ SignedByRoot'
    BY <2>4, FileFacts DEF RootFirst, SignedByRoot
  <2>11. QED
    BY <2>2, <2>5, <2>6, <2>9, <2>10 DEF CertInv
<1>3. CASE /\ Whole(BaseFiles) /\ Existing(QmsFiles) = {}
           /\ Issue(Command, disk[RootKey], NoAddress, QmsFiles)
  <2>1. \A f \in BaseNames : disk[f] # 0
    BY <1>3, WholeMeans
  <2>2. disk[RootKey] \in 1 .. Len(issues)
    BY <1>1, <2>1, FileFacts DEF CertTypeOK
  <2>3. disk[RootKey] \in 1 .. MaxIssues
    BY <1>1, <2>2 DEF CertTypeOK
  <2>4. /\ CertTypeOK' /\ disk' = disk /\ issues'[n] = [root |-> disk[RootKey], ip |-> NoAddress]
        /\ \A k \in 1 .. Len(issues) : issues'[k] = issues[k]
        /\ serial'[Command] = n /\ todo'[Command] = QmsFiles
        /\ \A y \in Writer \ {Command} : serial'[y] = serial[y] /\ todo'[y] = todo[y]
        /\ Len(issues) \in Nat
    BY <1>1, <1>3, <2>3, IssueEffect, FileFacts
  <2>5. Numbered'
    BY <2>4 DEF CertInv, Numbered
  <2>6. WebWrites'
    BY <1>1, <2>4 DEF WebWrites, WebRests
  <2>7. AddsQms(serial[Command])'
    <3>1. issues'[n].root = disk'[RootKey] /\ issues'[n].root # n
      BY <2>2, <2>4
    <3>2. Names(todo'[Command]) \subseteq Qms'
      BY <2>4 DEF Qms
    <3>3. QED
      BY <2>1, <2>4, <3>1, <3>2 DEF AddsQms, BaseNames
  <2>8. CommandWrites'
    BY <2>4, <2>7 DEF CommandWrites
  <2>9. RootFirst'
    BY <2>4 DEF CertInv, RootFirst
  <2>10. SignedByRoot'
    <3>1. ASSUME NEW f \in Leaves, disk[f] # 0 PROVE issues'[disk[f]] = issues[disk[f]]
      <4>1. disk[f] \in 1 .. Len(issues)
        BY <1>1, <3>1, FileFacts DEF CertTypeOK
      <4>2. QED
        BY <2>4, <4>1
    <3>2. QED
      BY <2>1, <2>4, <3>1 DEF CertInv, SignedByRoot
  <2>11. QED
    BY <2>4, <2>5, <2>6, <2>8, <2>9, <2>10 DEF CertInv
<1>4. QED
  BY <1>2, <1>3 DEF Generate, RootKey

LEMMA ReissueKeeps ==
  ASSUME CertInv, NEW x \in Web, NEW ip \in Address \cup {NoAddress}, Reissue(x, ip),
         \A f \in BaseNames : disk[f] # 0, todo[Command] = <<>>
  PROVE  /\ CertInv' /\ disk' = disk
         /\ serial'[x] # 0 /\ issues'[serial'[x]].ip = ip /\ todo'[x] = LeafFiles
         /\ \A y \in Writer \ {x} : todo'[y] = todo[y]
<1> DEFINE n == Len(issues) + 1
<1> USE CertificatesAssumption
<1>1. CertTypeOK /\ x \in Writer /\ Command \in Writer \ {x}
  BY DEF CertInv, Writer
<1>2. disk[RootKey] \in 1 .. Len(issues)
  BY <1>1, FileFacts DEF CertTypeOK
<1>3. disk[RootKey] \in 1 .. MaxIssues
  BY <1>1, <1>2 DEF CertTypeOK
<1>4. /\ CertTypeOK' /\ disk' = disk /\ issues'[n] = [root |-> disk[RootKey], ip |-> ip]
      /\ \A k \in 1 .. Len(issues) : issues'[k] = issues[k]
      /\ serial'[x] = n /\ todo'[x] = LeafFiles
      /\ \A y \in Writer \ {x} : serial'[y] = serial[y] /\ todo'[y] = todo[y]
      /\ Len(issues) \in Nat
  BY <1>1, <1>3, IssueEffect, FileFacts DEF Reissue, RootKey
<1>5. Numbered'
  BY <1>4 DEF CertInv, Numbered
<1>6. WebWrites'
  <2>1. ASSUME NEW y \in Web, todo'[y] # <<>>
        PROVE  issues'[serial'[y]].root = disk'[RootKey] /\ Names(todo'[y]) \subseteq Leaves
    <3>1. CASE y = x
      BY <1>4, <3>1 DEF Leaves
    <3>2. CASE y # x
      <4>1. todo'[y] = todo[y] /\ serial'[y] = serial[y] /\ y \in Writer
        BY <1>4, <3>2 DEF Writer
      <4>2. serial[y] \in 1 .. Len(issues)
        BY <1>1, <2>1, <4>1 DEF CertInv, Numbered, CertTypeOK
      <4>3. QED
        BY <1>4, <2>1, <4>1, <4>2 DEF CertInv, WebWrites
    <3>3. QED
      BY <3>1, <3>2
  <2>2. QED
    BY <2>1 DEF WebWrites, Leaves
<1>7. CommandWrites'
  BY <1>1, <1>4 DEF CommandWrites
<1>8. RootFirst'
  BY <1>4 DEF CertInv, RootFirst
<1>9. SignedByRoot'
  <2>1. ASSUME NEW f \in Leaves, disk[f] # 0 PROVE issues'[disk[f]] = issues[disk[f]]
    <3>1. disk[f] \in 1 .. Len(issues)
      BY <1>1, <2>1, FileFacts DEF CertTypeOK
    <3>2. QED
      BY <1>4, <3>1
  <2>2. QED
    BY <1>4, <2>1 DEF CertInv, SignedByRoot
<1>10. CertInv'
  BY <1>4, <1>5, <1>6, <1>7, <1>8, <1>9 DEF CertInv
<1>11. QED
  BY <1>4, <1>10

LEMMA WebWriteKeeps ==
  ASSUME CertInv, NEW x \in Web, WriteNext(x), \A f \in BaseNames : disk[f] # 0, todo[Command] = <<>>
  PROVE  /\ CertInv' /\ Head(todo[x]) \in Leaves /\ serial[x] \in 1 .. Len(issues)
         /\ issues[serial[x]].root = disk[RootKey]
<1> USE CertificatesAssumption
<1>1. CertTypeOK /\ x \in Writer /\ Command \in Writer \ {x}
  BY DEF CertInv, Writer
<1> DEFINE h == Head(todo[x])
<1>2. /\ CertTypeOK' /\ issues' = issues
      /\ todo[x] # <<>> /\ h \in File /\ h \in Names(todo[x])
      /\ disk' = [disk EXCEPT ![h] = serial[x]]
      /\ Names(todo'[x]) \subseteq Names(todo[x])
      /\ todo'[x] # <<>> => serial'[x] = serial[x]
      /\ \A y \in Writer \ {x} : serial'[y] = serial[y] /\ todo'[y] = todo[y]
  BY <1>1, WriteNextEffect
<1> HIDE DEF h
<1>3. h \in Leaves /\ issues[serial[x]].root = disk[RootKey] /\ serial[x] \in 1 .. Len(issues)
  <2>1. serial[x] # 0 /\ issues[serial[x]].root = disk[RootKey] /\ Names(todo[x]) \subseteq Leaves
    BY <1>1, <1>2 DEF CertInv, WebWrites, Numbered
  <2>2. serial[x] \in 0 .. Len(issues) /\ Len(issues) \in Nat
    BY <1>1 DEF CertTypeOK
  <2>3. QED
    BY <1>2, <2>1, <2>2
<1>4. /\ disk'[RootKey] = disk[RootKey] /\ disk'[RootCrt] = disk[RootCrt]
      /\ disk'[h] = serial[x] /\ \A f \in File \ {h} : disk'[f] = disk[f]
  BY <1>1, <1>2, <1>3, FileFacts DEF CertTypeOK
<1>5. Numbered'
  BY <1>1, <1>2 DEF CertInv, Numbered
<1>6. WebWrites'
  <2>1. ASSUME NEW y \in Web, todo'[y] # <<>>
        PROVE  issues'[serial'[y]].root = disk'[RootKey] /\ Names(todo'[y]) \subseteq Leaves
    <3>1. CASE y = x
      BY <1>2, <1>3, <1>4, <2>1, <3>1 DEF CertInv, WebWrites
    <3>2. CASE y # x
      BY <1>2, <1>4, <2>1, <3>2 DEF CertInv, WebWrites, Writer
    <3>3. QED
      BY <3>1, <3>2
  <2>2. QED
    BY <2>1 DEF WebWrites, Leaves
<1>7. CommandWrites'
  BY <1>1, <1>2 DEF CommandWrites
<1>8. RootFirst'
  BY <1>4, FileFacts DEF RootFirst
<1>9. SignedByRoot'
  <2>1. ASSUME NEW f \in Leaves, disk'[f] # 0 PROVE issues[disk'[f]].root = disk[RootKey]
    BY <1>3, <1>4, <2>1, FileFacts DEF CertInv, SignedByRoot
  <2>2. QED
    BY <1>2, <1>4, <2>1 DEF SignedByRoot, Leaves
<1>10. QED
  BY <1>2, <1>3, <1>5, <1>6, <1>7, <1>8, <1>9 DEF CertInv, h

LEMMA CommandWriteKeeps == CertInv /\ WebRests /\ WriteNext(Command) => CertInv'
<1> SUFFICES ASSUME CertInv, WebRests, WriteNext(Command) PROVE CertInv'
  OBVIOUS
<1> USE CertificatesAssumption
<1> DEFINE h == Head(todo[Command])
           n == serial[Command]
<1>1. CertTypeOK /\ Command \in Writer /\ \A x \in Web : x \in Writer \ {Command}
  BY DEF CertInv, Writer
<1>2. /\ CertTypeOK' /\ issues' = issues
      /\ todo[Command] # <<>> /\ h \in File /\ h \in Names(todo[Command])
      /\ disk' = [disk EXCEPT ![h] = n]
      /\ Names(todo'[Command]) \subseteq Names(todo[Command])
      /\ todo'[Command] # <<>> => serial'[Command] = n
      /\ \A y \in Writer \ {Command} : serial'[y] = serial[y] /\ todo'[y] = todo[y]
  BY <1>1, WriteNextEffect
<1>3. n # 0
  BY <1>1, <1>2 DEF CertInv, Numbered
<1>4. disk'[h] = n /\ \A f \in File \ {h} : disk'[f] = disk[f]
  BY <1>1, <1>2 DEF CertTypeOK
<1>5. CASE MakesRoot(n)
  <2>1. todo[Command] = BaseFiles \o QmsFiles => h = RootCrt
    BY FileFacts
  <2> HIDE DEF h, n
  <2>2. issues[n].root = n /\ \A f \in File : disk'[f] \in {0, n}
    BY <1>4, <1>5 DEF MakesRoot
  <2>3. disk'[RootCrt] = n
    BY <1>4, <1>5, <2>1, FileFacts DEF MakesRoot
  <2>4. Numbered'
    BY <1>1, <1>2, <1>3 DEF CertInv, Numbered
  <2>5. WebWrites'
    BY <1>1, <1>2 DEF WebWrites, WebRests
  <2>6. CommandWrites'
    BY <1>2, <2>2, <2>3 DEF CommandWrites, MakesRoot
  <2>7. RootFirst'
    BY <1>3, <2>3 DEF RootFirst
  <2>8. SignedByRoot'
    <3>1. ASSUME NEW f \in Leaves, disk'[f] # 0, \A g \in BaseNames : disk'[g] # 0
          PROVE  issues[disk'[f]].root = disk'[RootKey]
      BY <2>2, <3>1, FileFacts
    <3>2. QED
      BY <1>2, <3>1 DEF SignedByRoot, Leaves, BaseNames
  <2>9. QED
    BY <1>2, <2>4, <2>5, <2>6, <2>7, <2>8 DEF CertInv
<1>6. CASE AddsQms(n)
  <2>1. h \in Qms
    BY <1>2, <1>6 DEF AddsQms
  <2> HIDE DEF h, n
  <2>2. \A f \in BaseNames : disk'[f] = disk[f]
    BY <1>4, <2>1, FileFacts
  <2>3. Numbered'
    BY <1>1, <1>2, <1>3 DEF CertInv, Numbered
  <2>4. WebWrites'
    BY <1>1, <1>2 DEF WebWrites, WebRests
  <2>5. todo'[Command] # <<>> => AddsQms(serial[Command])'
    BY <1>2, <1>6, <2>2, FileFacts DEF AddsQms, BaseNames, Qms
  <2>6. CommandWrites'
    BY <2>5 DEF CommandWrites
  <2>7. RootFirst'
    BY <1>6, <2>2, FileFacts DEF RootFirst, AddsQms
  <2>8. SignedByRoot'
    <3>1. ASSUME NEW f \in Leaves, disk'[f] # 0
          PROVE  issues[disk'[f]].root = disk'[RootKey]
      BY <1>4, <1>6, <2>2, <3>1, FileFacts DEF AddsQms, CertInv, SignedByRoot
    <3>2. QED
      BY <1>2, <3>1 DEF SignedByRoot, Leaves
  <2>9. QED
    BY <1>2, <2>3, <2>4, <2>6, <2>7, <2>8 DEF CertInv
<1>7. QED
  BY <1>2, <1>5, <1>6 DEF CertInv, CommandWrites

\* A writer stops, with its files or without
LEMMA CommandFailsKeeps == CertInv /\ WebRests /\ WriteFails(Command) => CertInv'
<1> SUFFICES ASSUME CertInv, WebRests, WriteFails(Command) PROVE CertInv'
  OBVIOUS
<1> USE CertificatesAssumption
<1> DEFINE n == serial[Command]
<1>1. CertTypeOK /\ Command \in Writer /\ \A x \in Web : x \in Writer \ {Command}
  BY DEF CertInv, Writer
<1>2. /\ todo[Command] # <<>> /\ issues' = issues
      /\ todo' = [todo EXCEPT ![Command] = <<>>]
      /\ serial' = [x \in Writer |-> IF x \in {Command} THEN 0 ELSE serial[x]]
  BY DEF WriteFails, Done
<1>3. /\ todo' \in [Writer -> Seq(File)] /\ serial' \in [Writer -> 0 .. Len(issues')]
      /\ todo'[Command] = <<>> /\ \A x \in Web : todo'[x] = todo[x]
  BY <1>1, <1>2 DEF CertTypeOK
<1>4. Numbered' /\ WebWrites' /\ CommandWrites'
  BY <1>1, <1>3 DEF Numbered, WebWrites, WebRests, CommandWrites, Writer
<1>5. CASE MakesRoot(n)
  <2>1. disk' = [f \in File |-> 0]
    BY <1>5 DEF WriteFails, MakesRoot
  <2>2. CertTypeOK'
    BY <1>1, <1>2, <1>3, <2>1 DEF CertTypeOK
  <2>3. RootFirst' /\ SignedByRoot'
    BY <2>1, FileFacts DEF RootFirst, SignedByRoot
  <2>4. QED
    BY <1>4, <2>2, <2>3 DEF CertInv
<1>6. CASE AddsQms(n)
  <2>1. disk' = [disk EXCEPT ![<<"qms", "crt">>] = 0]
    BY <1>6 DEF WriteFails, AddsQms
  <2>2. <<"qms", "crt">> \in Qms
    BY NamesOfPair DEF Qms, QmsFiles
  <2>3. \A f \in BaseNames : disk'[f] = disk[f]
    BY <1>1, <2>1, <2>2, FileFacts DEF CertTypeOK
  <2>4. \A f \in Leaves : disk'[f] \in {0, disk[f]}
    BY <1>1, <2>1, <2>2, FileFacts DEF CertTypeOK
  <2>5. CertTypeOK'
    BY <1>1, <1>2, <1>3, <2>1 DEF CertTypeOK
  <2>6. RootFirst'
    BY <1>6, <2>3, FileFacts DEF RootFirst, AddsQms
  <2>7. SignedByRoot'
    BY <1>2, <1>6, <2>3, <2>4, FileFacts DEF CertInv, SignedByRoot, AddsQms, BaseNames, Leaves
  <2>8. QED
    BY <1>4, <2>5, <2>6, <2>7 DEF CertInv
<1>7. QED
  BY <1>2, <1>5, <1>6 DEF CertInv, CommandWrites

\* The files stay; some writers forget what they had still to write
LEMMA StoppedKeeps ==
  ASSUME CertInv, UNCHANGED <<disk, issues>>, NEW gone \in SUBSET Writer, Done(gone),
         todo' = [x \in Writer |-> IF x \in gone THEN <<>> ELSE todo[x]]
  PROVE  CertInv'
<1> USE CertificatesAssumption
<1>1. /\ todo' \in [Writer -> Seq(File)] /\ serial' \in [Writer -> 0 .. Len(issues')]
      /\ \A x \in Writer : todo'[x] # <<>> => todo'[x] = todo[x] /\ serial'[x] = serial[x]
  BY DoneEffect DEF CertInv
<1>2. CertTypeOK'
  BY <1>1 DEF CertInv, CertTypeOK
<1>3. Numbered' /\ WebWrites'
  BY <1>1 DEF CertInv, Numbered, WebWrites, Writer
<1>4. CommandWrites'
  BY <1>1 DEF CertInv, CommandWrites, MakesRoot, AddsQms, Writer
<1>5. RootFirst' /\ SignedByRoot'
  BY DEF CertInv, RootFirst, SignedByRoot
<1>6. QED
  BY <1>2, <1>3, <1>4, <1>5 DEF CertInv

LEMMA KilledKeeps == ASSUME CertInv, NEW gone \in SUBSET Writer, Killed(gone) PROVE CertInv'
BY StoppedKeeps DEF Killed

LEMMA WebFailsKeeps ==
  ASSUME CertInv, NEW x \in Web, WriteFails(x)
  PROVE  CertInv' /\ disk' = disk /\ issues' = issues
         /\ todo' = [todo EXCEPT ![x] = <<>>]
<1>1. x # Command /\ x \in Writer
  BY CertificatesAssumption DEF Writer
<1>2. disk' = disk /\ issues' = issues /\ Done({x}) /\ todo' = [todo EXCEPT ![x] = <<>>]
  BY <1>1 DEF WriteFails
<1>3. todo' = [y \in Writer |-> IF y \in {x} THEN <<>> ELSE todo[y]]
  BY <1>2 DEF CertInv, CertTypeOK
<1>4. CertInv'
  BY <1>1, <1>2, <1>3, StoppedKeeps
<1>5. QED
  BY <1>2, <1>4

LEMMA StillKeeps == CertInv /\ UNCHANGED certVars => CertInv'
BY DEF certVars, CertInv, CertTypeOK, Numbered, WebWrites, CommandWrites, MakesRoot, AddsQms,
       RootFirst, SignedByRoot

-----------------------------------------------------------------------------
(* The server around the directory                                         *)

\* A web thread has files to write exactly while it writes leaves, and without
\* a server there are no web threads
Resting ==
  \A x \in Web :
    /\ step[x] = "leaves" => todo[x] # <<>>
    /\ step[x] # "leaves" => todo[x] = <<>>
    /\ server = "down" => step[x] = "idle"

\* A running server has found every file, and the command has nothing to do
UpIsWhole ==
  server = "up" =>
    (\A f \in BaseNames : disk[f] # 0) /\ (\A f \in Qms : disk[f] # 0) /\ todo[Command] = <<>>

ServerInv == OtaTypeOK /\ CertInv /\ Resting /\ UpIsWhole

LEMMA BusyIsUp ==
  ASSUME ServerInv, NEW x \in Web, Busy(x)
  PROVE  /\ server = "up" /\ \A f \in BaseNames : disk[f] # 0
         /\ todo[Command] = <<>>
BY DEF ServerInv, OtaTypeOK, Resting, UpIsWhole, Busy

LEMMA CommandIsDown ==
  ASSUME ServerInv, RunCommand \/ CommandFails
  PROVE  server = "down" /\ WebRests
<1>1. CASE todo[Command] # <<>>
  BY <1>1 DEF ServerInv, OtaTypeOK, Resting, UpIsWhole, WebRests
<1>2. CASE todo[Command] = <<>>
  <2>1. Generate
    BY <1>2 DEF RunCommand, CommandFails, WriteNext, WriteFails
  <2>2. Existing(BaseFiles) = {} \/ Existing(QmsFiles) = {}
    BY <2>1 DEF Generate, FromScratch
  <2>3. RootCrt \in BaseNames /\ <<"qms", "crt">> \in Qms
    BY FileFacts, NamesOfPair DEF Qms, QmsFiles
  <2>4. server # "up"
    BY <2>2, <2>3, WholeMeans DEF ServerInv, UpIsWhole
  <2>5. QED
    BY <2>4 DEF ServerInv, OtaTypeOK, Resting, WebRests
<1>3. QED
  BY <1>1, <1>2

LEMMA CertStep == ServerInv /\ [OtaNext]_otaVars => CertInv'
<1> SUFFICES ASSUME ServerInv, [OtaNext]_otaVars PROVE CertInv'
  OBVIOUS
<1> USE CertificatesAssumption
<1>0. CertInv
  BY DEF ServerInv
<1>1. CASE UNCHANGED certVars
  BY <1>0, <1>1, StillKeeps
<1>2. CASE RunCommand
  BY <1>0, <1>2, CommandIsDown, GenerateKeeps, CommandWriteKeeps DEF RunCommand
<1>3. CASE CommandFails
  BY <1>0, <1>3, CommandIsDown, CommandFailsKeeps DEF CommandFails
<1>4. ASSUME NEW gone \in {{Command}, Web}, Crash(gone) PROVE CertInv'
  <2>1. gone \in SUBSET Writer
    BY DEF Writer
  <2>2. QED
    BY <1>0, <1>4, <2>1, KilledKeeps DEF Crash
<1>5. ASSUME NEW x \in Web, MakeLeaves(x) PROVE CertInv'
  <2>1. Busy(x) /\ Reissue(x, asks[x].ip)
    BY <1>5 DEF MakeLeaves, Busy
  <2>2. asks[x].ip \in Address \cup {NoAddress}
    BY DEF ServerInv, OtaTypeOK, Setting
  <2>3. QED
    BY <1>0, <2>1, <2>2, BusyIsUp, ReissueKeeps
<1>6. ASSUME NEW x \in Web, WriteLeaf(x) PROVE CertInv'
  <2>1. Busy(x) /\ WriteNext(x)
    BY <1>6 DEF WriteLeaf, Busy
  <2>2. QED
    BY <1>0, <2>1, BusyIsUp, WebWriteKeeps
<1>7. ASSUME NEW x \in Web, RequestFails(x) PROVE CertInv'
  BY <1>0, <1>1, <1>7, WebFailsKeeps DEF RequestFails
<1>8. ASSUME NEW x \in Web, NEW s \in {Off} \cup [enabled : {TRUE}, ip : Address], Ask(x, s)
      PROVE  CertInv'
  BY <1>1, <1>8 DEF Ask
<1>9. CASE Start \/ CheckVersion \/ Fetch
  BY <1>1, <1>9 DEF Start, CheckVersion, Fetch
<1>10. ASSUME NEW x \in Web, Serve(x) PROVE CertInv'
  BY <1>1, <1>5, <1>6, <1>10
  DEF Serve, BuildImage, WriteConfig, ReloadBroker, ReloadQms, Reload, StopChildren, StartChildren
<1>11. CASE UNCHANGED otaVars
  BY <1>1, <1>11 DEF otaVars
<1>12. QED
  BY <1>2, <1>3, <1>4, <1>7, <1>8, <1>9, <1>10, <1>11 DEF OtaNext

\* A running server keeps every file
LEMMA ServerStep == ServerInv /\ [OtaNext]_otaVars => (Resting /\ UpIsWhole)'
<1> SUFFICES ASSUME ServerInv, [OtaNext]_otaVars PROVE (Resting /\ UpIsWhole)'
  OBVIOUS
<1> USE CertificatesAssumption
<1>0. OtaTypeOK /\ CertInv /\ CertTypeOK /\ Resting /\ UpIsWhole
      /\ Command \in Writer /\ \A x \in Web : x \in Writer \ {Command}
  BY DEF ServerInv, CertInv, Writer
<1>1. CASE UNCHANGED <<disk, todo, server, step>>
  BY <1>0, <1>1 DEF Resting, UpIsWhole
<1>2. CASE Start
  BY <1>0, <1>2, WholeMeans DEF Start, certVars, Resting, UpIsWhole
<1>3. CASE RunCommand \/ CommandFails
  <2>1. server = "down" /\ WebRests /\ server' = server /\ step' = step
    BY <1>3, CommandIsDown DEF RunCommand, CommandFails, ServerInv
  <2>2. \A x \in Web : todo'[x] = todo[x]
    <3>1. CASE Generate
      BY <1>0, <3>1 DEF Generate, Issue, CertTypeOK
    <3>2. CASE WriteNext(Command)
      BY <1>0, <3>2, WriteNextEffect
    <3>3. CASE WriteFails(Command)
      BY <1>0, <3>3 DEF WriteFails, CertTypeOK
    <3>4. QED
      BY <1>3, <3>1, <3>2, <3>3 DEF RunCommand, CommandFails
  <2>3. QED
    BY <1>0, <2>1, <2>2 DEF Resting, UpIsWhole
<1>4. ASSUME NEW gone \in {{Command}, Web}, Crash(gone) PROVE (Resting /\ UpIsWhole)'
  <2>1. /\ disk' = disk
        /\ todo' = [x \in Writer |-> IF x \in gone THEN <<>> ELSE todo[x]]
    BY <1>4 DEF Crash, Killed
  <2>2. CASE gone = Web
    <3>1. server' = "down" /\ step' = [x \in Web |-> "idle"]
      BY <1>4, <2>2 DEF Crash
    <3>2. QED
      BY <1>0, <2>1, <2>2, <3>1 DEF Resting, UpIsWhole
  <2>3. CASE gone = {Command} /\ gone # Web
    <3>1. server' = server /\ step' = step
      BY <1>4, <2>3 DEF Crash
    <3>2. QED
      BY <1>0, <2>1, <2>3, <3>1 DEF Resting, UpIsWhole
  <2>4. QED
    BY <1>4, <2>2, <2>3
<1>5. ASSUME NEW x \in Web, NEW s \in {Off} \cup [enabled : {TRUE}, ip : Address], Ask(x, s)
      PROVE  (Resting /\ UpIsWhole)'
  BY <1>0, <1>5 DEF Ask, Busy, certVars, OtaTypeOK, Resting, UpIsWhole
<1>6. ASSUME NEW x \in Web, MakeLeaves(x) PROVE (Resting /\ UpIsWhole)'
  <2>1. /\ Busy(x) /\ Reissue(x, asks[x].ip)
        /\ step' = [step EXCEPT ![x] = "leaves"] /\ server' = server
    BY <1>6 DEF MakeLeaves, Busy, Goto
  <2>2. asks[x].ip \in Address \cup {NoAddress}
    BY <1>0 DEF OtaTypeOK, Setting
  <2>3. /\ disk' = disk /\ todo'[x] = LeafFiles
        /\ \A y \in Writer \ {x} : todo'[y] = todo[y]
    BY <1>0, <2>1, <2>2, BusyIsUp, ReissueKeeps
  <2>4. QED
    BY <1>0, <2>1, <2>3, BusyIsUp, FileFacts DEF OtaTypeOK, Resting, UpIsWhole
<1>7. ASSUME NEW x \in Web, WriteLeaf(x) PROVE (Resting /\ UpIsWhole)'
  <2>1. /\ Busy(x) /\ WriteNext(x) /\ server' = server
        /\ step' = [step EXCEPT ![x] = IF todo'[x] = <<>> THEN "brk2" ELSE "leaves"]
    BY <1>7 DEF WriteLeaf, Busy, Goto
  <2>2. /\ disk' = [disk EXCEPT ![Head(todo[x])] = serial[x]] /\ serial[x] # 0
        /\ \A y \in Writer \ {x} : todo'[y] = todo[y]
    BY <1>0, <2>1, WriteNextEffect, BusyIsUp DEF CertInv, Numbered
  <2>3. \A f \in File : disk[f] # 0 => disk'[f] # 0
    BY <1>0, <2>2 DEF CertTypeOK
  <2>4. QED
    BY <1>0, <2>1, <2>2, <2>3, BusyIsUp, FileFacts DEF OtaTypeOK, Resting, UpIsWhole
<1>8. ASSUME NEW x \in Web, RequestFails(x) PROVE (Resting /\ UpIsWhole)'
  <2>1. Busy(x) /\ step' = [step EXCEPT ![x] = "idle"] /\ server' = server
    BY <1>8 DEF RequestFails, Goto
  <2>2. /\ disk' = disk /\ todo'[x] = <<>>
        /\ \A y \in Writer \ {x} : todo'[y] = todo[y]
    <3>1. CASE todo[x] = <<>>
      BY <1>8, <3>1 DEF RequestFails, certVars
    <3>2. CASE todo[x] # <<>>
      BY <1>0, <1>8, <3>2, WebFailsKeeps DEF RequestFails, CertTypeOK
    <3>3. QED
      BY <3>1, <3>2
  <2>3. QED
    BY <1>0, <2>1, <2>2 DEF OtaTypeOK, Resting, UpIsWhole
<1>9. CASE CheckVersion \/ Fetch \/ UNCHANGED otaVars
  BY <1>1, <1>9 DEF CheckVersion, Fetch, otaVars, certVars
<1>10. ASSUME NEW x \in Web, Serve(x), ~MakeLeaves(x), ~WriteLeaf(x) PROVE (Resting /\ UpIsWhole)'
  <2>1. /\ UNCHANGED certVars /\ server' = server /\ Busy(x) /\ step[x] # "leaves"
        /\ \E place \in {"idle", "config", "issue", "qms", "mef", "restart"} :
             step' = [step EXCEPT ![x] = place]
    BY <1>10 DEF Serve, BuildImage, WriteConfig, ReloadBroker, ReloadQms, Reload, StopChildren,
       StartChildren, Answer, Goto, Busy
  <2>2. QED
    BY <1>0, <2>1, BusyIsUp DEF OtaTypeOK, certVars, Resting, UpIsWhole
<1>11. QED
  BY <1>2, <1>3, <1>4, <1>5, <1>6, <1>7, <1>8, <1>9, <1>10 DEF OtaNext

-----------------------------------------------------------------------------
(* Types *)

Places == {"idle", "image", "config", "issue", "leaves", "brk2", "qms", "mef", "restart"}
Counts == [requests : 0 .. MaxRequests, troubles : 0 .. MaxTroubles]

LEMMA OffIsSetting == Off \in Setting
BY DEF Off, Setting

LEMMA GotoTypes ==
  ASSUME OtaTypeOK, NEW x \in Web, NEW place \in Places, Goto(x, place)
  PROVE  step' \in [Web -> Places] /\ asks' \in [Web -> Setting]
BY OffIsSetting DEF OtaTypeOK, Goto, Places

LEMMA CountTypes ==
  ASSUME OtaTypeOK, Count("requests", MaxRequests) \/ Count("troubles", MaxTroubles)
  PROVE  counts' \in Counts
BY OtaAssumption DEF OtaTypeOK, Count, Counts

\* The issues are not taken back
LEMMA IssuesGrow ==
  OtaTypeOK /\ [OtaNext]_otaVars => Len(issues) \in Nat /\ Len(issues) <= Len(issues')
<1> SUFFICES ASSUME OtaTypeOK, [OtaNext]_otaVars
             PROVE  Len(issues) \in Nat /\ Len(issues) <= Len(issues')
  OBVIOUS
<1>1. issues \in Seq([root : 1 .. MaxIssues, ip : Address \cup {NoAddress}]) /\ Len(issues) \in Nat
  BY DEF OtaTypeOK, CertTypeOK
<1>2. issues' = issues \/ \E x \in Writer : \E root, ip, files : Issue(x, root, ip, files)
  <2>1. ASSUME NEW x \in Web, Serve(x)
        PROVE  issues' = issues \/ \E root, ip, files : Issue(x, root, ip, files)
    BY <2>1 DEF Serve, BuildImage, WriteConfig, MakeLeaves, Reissue, WriteLeaf, WriteNext,
       ReloadBroker, ReloadQms, Reload, StopChildren, StartChildren, certVars
  <2>2. CASE RunCommand
    BY <2>2 DEF RunCommand, Generate, WriteNext, Writer
  <2>3. CASE CommandFails \/ \E gone \in {{Command}, Web} : Crash(gone)
    BY <2>3 DEF CommandFails, WriteFails, Crash, Killed
  <2>4. ASSUME NEW x \in Web, RequestFails(x) PROVE issues' = issues
    BY <2>4 DEF RequestFails, WriteFails, certVars
  <2>5. CASE Start \/ CheckVersion \/ Fetch
             \/ \E x \in Web, s \in {Off} \cup [enabled : {TRUE}, ip : Address] : Ask(x, s)
    BY <2>5 DEF Start, CheckVersion, Fetch, Ask, certVars
  <2>6. CASE UNCHANGED otaVars
    BY <2>6 DEF otaVars, certVars
  <2>7. QED
    BY <2>1, <2>2, <2>3, <2>4, <2>5, <2>6 DEF OtaNext, Writer
<1>3. CASE issues' = issues
  BY <1>1, <1>3
<1>4. ASSUME NEW x, NEW root, NEW ip, NEW files, Issue(x, root, ip, files)
      PROVE  Len(issues') = Len(issues) + 1
  BY <1>1, <1>4 DEF Issue
<1>5. QED
  BY <1>1, <1>2, <1>3, <1>4

LEMMA OtaTypeStep == ServerInv /\ [OtaNext]_otaVars => OtaTypeOK'
<1> SUFFICES ASSUME ServerInv, [OtaNext]_otaVars PROVE OtaTypeOK'
  OBVIOUS
<1> USE CertificatesAssumption, OtaAssumption
<1>0. OtaTypeOK
  BY DEF ServerInv
<1>1. CertTypeOK'
  BY CertStep DEF CertInv
<1>2. loaded' \in [Service -> 0 .. Len(issues')] =>
      (config' \in Setting /\ image' \in Address \cup {NoAddress} /\ server' \in {"up", "down"}
       /\ step' \in [Web -> Places] /\ asks' \in [Web -> Setting]
       /\ alone' \in [Web -> BOOLEAN] /\ finished' \in BOOLEAN
       /\ installed' \in Firmware /\ offer' \in {"none", "1.0.66", "1.0.68"} /\ counts' \in Counts
       => OtaTypeOK')
  BY <1>1 DEF OtaTypeOK, Places, Counts
<1>3. loaded' = loaded => loaded' \in [Service -> 0 .. Len(issues')]
  BY <1>0, IssuesGrow DEF OtaTypeOK
<1>a. ASSUME NEW p \in Service PROVE disk[<<p, "crt">>] \in 0 .. Len(issues')
  <2>1. <<p, "crt">> \in File
    BY FileFacts
  <2>2. disk[<<p, "crt">>] \in 0 .. Len(issues)
    BY <1>0, <2>1 DEF OtaTypeOK, CertTypeOK
  <2>3. QED
    BY <1>0, <2>2, IssuesGrow
<1>b. 0 \in 0 .. Len(issues') /\ \A p \in Service : loaded[p] \in 0 .. Len(issues')
  BY <1>0, IssuesGrow DEF OtaTypeOK
<1> DEFINE Kept == /\ config \in Setting /\ image \in Address \cup {NoAddress}
                   /\ server \in {"up", "down"}
                   /\ step \in [Web -> Places] /\ asks \in [Web -> Setting]
                   /\ alone \in [Web -> BOOLEAN] /\ finished \in BOOLEAN
                   /\ installed \in Firmware /\ offer \in {"none", "1.0.66", "1.0.68"}
                   /\ counts \in Counts
<1>c. Kept
  BY <1>0 DEF OtaTypeOK, Places, Counts
<1>4. CASE Start
  <2>1. loaded' = [p \in Service |-> IF Loads(p) THEN disk[<<p, "crt">>] ELSE 0]
    BY <1>4 DEF Start
  <2>2. loaded' \in [Service -> 0 .. Len(issues')]
    BY <1>a, <1>b, <2>1
  <2>3. QED
    BY <1>2, <1>c, <1>4, <2>2 DEF Start, multitap
<1>5. CASE RunCommand
  BY <1>2, <1>3, <1>c, <1>5 DEF RunCommand, multitap
<1>6. CASE CommandFails
  BY <1>0, <1>2, <1>3, <1>c, <1>6, CountTypes DEF CommandFails, multitap
<1>7. ASSUME NEW gone \in {{Command}, Web}, Crash(gone) PROVE OtaTypeOK'
  <2>1. /\ counts' \in Counts /\ alone' \in [Web -> BOOLEAN] /\ finished' \in BOOLEAN
        /\ UNCHANGED <<config, image, installed, offer>>
    BY <1>0, <1>7, CountTypes DEF Crash, Disturb, multitap
  <2>2. CASE gone = Web
    BY <1>2, <1>b, <1>c, <1>7, <2>1, <2>2, OffIsSetting DEF Crash, Places
  <2>3. CASE gone # Web
    BY <1>2, <1>3, <1>c, <1>7, <2>1, <2>3 DEF Crash
  <2>4. QED
    BY <2>2, <2>3
<1>8. ASSUME NEW x \in Web, NEW s \in {Off} \cup [enabled : {TRUE}, ip : Address], Ask(x, s)
      PROVE  OtaTypeOK'
  <2>1. s \in Setting
    BY OffIsSetting DEF Setting
  <2>2. step' \in [Web -> Places] /\ asks' \in [Web -> Setting]
    BY <1>c, <1>8, <2>1 DEF Ask, Places
  <2>3. alone' \in [Web -> BOOLEAN] /\ finished' \in BOOLEAN
    BY <1>8 DEF Ask
  <2>4. counts' \in Counts
    BY <1>0, <1>8, CountTypes DEF Ask
  <2>5. UNCHANGED <<config, image, loaded, server, installed, offer>>
    BY <1>8 DEF Ask, multitap
  <2>6. QED
    BY <1>2, <1>3, <1>c, <2>2, <2>3, <2>4, <2>5
<1>9. ASSUME NEW x \in Web, RequestFails(x) PROVE OtaTypeOK'
  <2>1. step' \in [Web -> Places] /\ asks' \in [Web -> Setting]
    BY <1>0, <1>9, GotoTypes DEF RequestFails, Places
  <2>2. /\ counts' \in Counts /\ alone' \in [Web -> BOOLEAN] /\ finished' \in BOOLEAN
        /\ UNCHANGED <<config, image, loaded, server, installed, offer>>
    BY <1>0, <1>c, <1>9, CountTypes DEF RequestFails, multitap
  <2>3. QED
    BY <1>2, <1>3, <1>c, <2>1, <2>2
<1>10. CASE CheckVersion
  BY <1>2, <1>3, <1>c, <1>10 DEF CheckVersion, Target
<1>11. CASE Fetch
  <2>1. installed' \in Firmware
    <3>1. Stock \in Firmware /\ [version |-> "1.0.68", ip |-> image] \in Firmware
      BY <1>c DEF Stock, Firmware
    <3>2. QED
      BY <1>c, <1>11, <3>1 DEF Fetch
  <2>2. QED
    BY <1>2, <1>3, <1>c, <1>11, <2>1 DEF Fetch
<1>12. ASSUME NEW x \in Web, Serve(x) PROVE OtaTypeOK'
  <2>1. \E place \in Places : Goto(x, place)
    BY <1>12 DEF Serve, BuildImage, WriteConfig, MakeLeaves, WriteLeaf, ReloadBroker, ReloadQms,
       Reload, StopChildren, StartChildren, Answer, Places
  <2>2. step' \in [Web -> Places] /\ asks' \in [Web -> Setting]
    BY <1>0, <2>1, GotoTypes
  <2>3. UNCHANGED <<server, alone, installed, offer, counts>>
    BY <1>12 DEF Serve, BuildImage, WriteConfig, MakeLeaves, WriteLeaf, ReloadBroker, ReloadQms,
       Reload, StopChildren, StartChildren, multitap
  <2>4. finished' = finished \/ finished' = alone[x]
    BY <1>12 DEF Serve, BuildImage, WriteConfig, MakeLeaves, WriteLeaf, ReloadBroker, ReloadQms,
       Reload, StopChildren, StartChildren, Answer
  <2>5. finished' \in BOOLEAN
    BY <1>c, <2>4, Zenon
  <2>6. config' = config \/ config' = asks[x]
    BY <1>12 DEF Serve, BuildImage, WriteConfig, MakeLeaves, WriteLeaf, ReloadBroker, ReloadQms,
       Reload, StopChildren, StartChildren
  <2>7. image' = image \/ image' = asks[x].ip
    BY <1>12 DEF Serve, BuildImage, WriteConfig, MakeLeaves, WriteLeaf, ReloadBroker, ReloadQms,
       Reload, StopChildren, StartChildren
  <2>8. loaded' = loaded \/ \E p \in Service : \E n \in {0, disk[<<p, "crt">>]} :
                              loaded' = [loaded EXCEPT ![p] = n]
    BY <1>12 DEF Serve, BuildImage, WriteConfig, MakeLeaves, WriteLeaf, ReloadBroker, ReloadQms,
       Reload, StopChildren, Stopped, StartChildren, Service
  <2>9. loaded' \in [Service -> 0 .. Len(issues')]
    BY <1>0, <1>3, <1>a, <1>b, <2>8 DEF OtaTypeOK
  <2>10. config' \in Setting /\ image' \in Address \cup {NoAddress}
    BY <1>c, <2>6, <2>7 DEF Setting
  <2>11. QED
    BY <1>2, <1>c, <2>2, <2>3, <2>5, <2>9, <2>10
<1>13. CASE UNCHANGED otaVars
  BY <1>2, <1>3, <1>c, <1>13 DEF otaVars
<1>14. QED
  BY <1>4, <1>5, <1>6, <1>7, <1>8, <1>9, <1>10, <1>11, <1>12, <1>13 DEF OtaNext

LEMMA ServerInvInit == OtaInit => ServerInv
<1> SUFFICES ASSUME OtaInit PROVE ServerInv
  OBVIOUS
<1> USE CertificatesAssumption, OtaAssumption DEF OtaInit
<1>1. CertTypeOK /\ \A f \in File : disk[f] \in 0 .. Len(issues)
  <2>1. CASE disk = [f \in File |-> 0] /\ issues = <<>>
    BY <2>1 DEF CertInit, CertTypeOK
  <2>2. CASE /\ disk = [f \in File |-> IF f[1] = "qms" THEN 0 ELSE 1]
             /\ issues = << [root |-> 1, ip |-> NoAddress] >>
    BY <2>2 DEF CertInit, CertTypeOK
  <2>3. QED
    BY <2>1, <2>2 DEF CertInit, CertTypeOK
<1>2. Numbered /\ WebWrites /\ CommandWrites
  BY DEF CertInit, Numbered, WebWrites, CommandWrites, Writer
<1>3. RootFirst /\ SignedByRoot
  <2>1. CASE disk = [f \in File |-> 0]
    BY <2>1, FileFacts DEF RootFirst, SignedByRoot
  <2>2. CASE /\ disk = [f \in File |-> IF f[1] = "qms" THEN 0 ELSE 1]
             /\ issues = << [root |-> 1, ip |-> NoAddress] >>
    <3>1. disk[RootCrt] = 1 /\ disk[RootKey] = 1
      BY <2>2, FileFacts DEF RootCrt, RootKey
    <3>2. issues[1].root = 1
      BY <2>2
    <3>3. \A f \in Leaves : disk[f] # 0 => disk[f] = 1
      BY <2>2, FileFacts
    <3>4. QED
      BY <3>1, <3>2, <3>3 DEF RootFirst, SignedByRoot
  <2>3. QED
    BY <2>1, <2>2 DEF CertInit
<1>4. CertInv
  BY <1>1, <1>2, <1>3 DEF CertInv
<1>5. Resting /\ UpIsWhole
  BY DEF CertInit, Resting, UpIsWhole, Writer
<1>6. OtaTypeOK
  <2>1. Off \in Setting /\ Stock \in Firmware
    BY OffIsSetting DEF Stock, Firmware
  <2>2. 0 \in 0 .. Len(issues)
    BY <1>1 DEF CertTypeOK
  <2>3. counts \in Counts
    BY DEF Counts
  <2>4. QED
    BY <1>1, <2>1, <2>2, <2>3 DEF OtaTypeOK, Counts
<1>7. QED
  BY <1>4, <1>5, <1>6 DEF ServerInv

LEMMA AlwaysServer == OtaSpec => []ServerInv
<1>1. ServerInv /\ [OtaNext]_otaVars => ServerInv'
  BY CertStep, ServerStep, OtaTypeStep DEF ServerInv
<1>2. QED
  BY <1>1, ServerInvInit, PTL DEF OtaSpec

\* Every variable keeps its type
THEOREM OtaTypes == OtaSpec => []OtaTypeOK
<1>1. ServerInv => OtaTypeOK
  BY DEF ServerInv
<1>2. QED
  BY <1>1, AlwaysServer, PTL

-----------------------------------------------------------------------------
(* The provisioned root                                                    *)

\* Beside a complete set and an idle command only web threads write, and they
\* write leaves
LEMMA OnlyLeavesChange ==
  ASSUME ServerInv, [OtaNext]_otaVars, \A f \in BaseNames : disk[f] # 0, todo[Command] = <<>>
  PROVE  /\ disk'[RootCrt] = disk[RootCrt] /\ disk'[RootKey] = disk[RootKey]
         /\ \A f \in BaseNames : disk'[f] # 0
<1>0. CertInv /\ CertTypeOK
  BY DEF ServerInv, CertInv
<1>1. CASE disk' = disk
  BY <1>1
<1>2. ASSUME NEW x \in Web, WriteLeaf(x)
      PROVE  /\ disk'[RootCrt] = disk[RootCrt] /\ disk'[RootKey] = disk[RootKey]
             /\ \A f \in BaseNames : disk'[f] # 0
  <2>1. x \in Writer /\ WriteNext(x)
    BY <1>2 DEF WriteLeaf, Writer
  <2>2. /\ disk' = [disk EXCEPT ![Head(todo[x])] = serial[x]]
        /\ Head(todo[x]) \in Leaves /\ serial[x] \in 1 .. Len(issues)
    BY <1>0, <2>1, WriteNextEffect, WebWriteKeeps
  <2>3. Len(issues) \in Nat
    BY <1>0 DEF CertTypeOK
  <2>4. serial[x] # 0
    BY <2>2, <2>3
  <2>5. QED
    BY <1>0, <2>2, <2>4, FileFacts DEF CertTypeOK
<1>3. ASSUME NEW x \in Web, Serve(x), ~WriteLeaf(x) PROVE disk' = disk
  BY <1>3 DEF Serve, BuildImage, WriteConfig, MakeLeaves, Reissue, Issue, ReloadBroker, ReloadQms,
     Reload, StopChildren, StartChildren, certVars
<1>4. CASE RunCommand \/ CommandFails
  BY <1>1, <1>4 DEF RunCommand, Generate, Issue, WriteNext, CommandFails, WriteFails
<1>5. ASSUME NEW x \in Web, RequestFails(x) PROVE disk' = disk
  BY <1>0, <1>5, WebFailsKeeps DEF RequestFails, certVars
<1>6. CASE \/ Start \/ CheckVersion \/ Fetch
           \/ \E gone \in {{Command}, Web} : Crash(gone)
           \/ \E x \in Web, s \in {Off} \cup [enabled : {TRUE}, ip : Address] : Ask(x, s)
  BY <1>1, <1>6 DEF Start, CheckVersion, Fetch, Crash, Killed, Ask, certVars
<1>7. CASE UNCHANGED otaVars
  BY <1>1, <1>7 DEF otaVars, certVars
<1>8. QED
  BY <1>1, <1>2, <1>3, <1>4, <1>5, <1>6, <1>7 DEF OtaNext

\* The root that devices were provisioned with stays, with its key, and signs
\* every leaf beside it (generate_certificates, _write)
THEOREM RootIsKept == OtaSpec => OneRoot
<1>1. ASSUME ServerInv, [OtaNext]_otaVars, Whole(BaseFiles), todo[Command] = <<>>
      PROVE  /\ \A f \in Names(PairOf("root")) : disk'[f] = disk[f]
             /\ \A f \in Names(LeafFiles) : disk'[f] # 0 =>
                  issues'[disk'[f]].root = disk[<<"root", "key">>]
  <2>1. /\ disk'[RootCrt] = disk[RootCrt] /\ disk'[RootKey] = disk[RootKey]
        /\ \A f \in BaseNames : disk'[f] # 0
    BY <1>1, WholeMeans, OnlyLeavesChange
  <2>2. CertInv'
    BY <1>1, CertStep
  <2>3. SignedByRoot'
    BY <2>2 DEF CertInv
  <2>4. \A f \in Leaves : disk'[f] # 0 => issues'[disk'[f]].root = disk'[RootKey]
    BY <2>1, <2>3 DEF SignedByRoot, Leaves, BaseNames
  <2>5. QED
    BY <2>1, <2>4, FileFacts DEF Leaves, RootKey
<1>2. ServerInv /\ [OtaNext]_otaVars =>
        [Whole(BaseFiles) /\ todo[Command] = <<>> =>
           /\ \A f \in Names(PairOf("root")) : disk'[f] = disk[f]
           /\ \A f \in Names(LeafFiles) : disk'[f] # 0 =>
                issues'[disk'[f]].root = disk[<<"root", "key">>]]_otaVars
  BY <1>1
<1>3. QED
  BY <1>2, AlwaysServer, PTL DEF OtaSpec, OneRoot

-----------------------------------------------------------------------------
(* An undisturbed "Enable & Build"                                         *)

\* A request that nothing else touched has the server to itself
AloneIsAlone == \A x \in Web : alone[x] => \A y \in Web \ {x} : step[y] = "idle"

FinishedIsIdle == finished => server = "up" /\ \A x \in Web : step[x] = "idle"

\* All three pairs on disk are of one issue, for this address
Agree(ip) ==
  \E n \in 1 .. Len(issues) : issues[n].ip = ip /\ \A f \in Leaves : disk[f] = n
Presents(p) == loaded[p] = disk[<<p, "crt">>]

Written == {"issue", "leaves", "brk2", "qms", "mef", "restart"}

\* How far such a request has brought what it asks for
Brought(x) ==
  /\ step[x] = "config" /\ asks[x].enabled => image = asks[x].ip
  /\ step[x] \in Written =>
       asks[x].enabled /\ config = asks[x] /\ image = asks[x].ip
  /\ step[x] = "leaves" =>
       /\ issues[serial[x]].ip = asks[x].ip
       /\ \A f \in Leaves : disk[f] = serial[x] \/ f \in Names(todo[x])
  /\ step[x] \in {"brk2", "qms", "mef", "restart"} => Agree(asks[x].ip)
  /\ step[x] \in {"qms", "mef", "restart"} => Presents("brk2")
  /\ step[x] \in {"mef", "restart"} => Presents("qms")
  /\ step[x] = "restart" => loaded["mef"] = 0
AloneBrought == \A x \in Web : alone[x] => Brought(x)

HealInv == ServerInv /\ AloneIsAlone /\ FinishedIsIdle /\ AloneBrought /\ EnableHeals
\* What a step has still to establish, the server aside
HealGoal == AloneIsAlone /\ FinishedIsIdle /\ AloneBrought /\ EnableHeals

LEMMA AgreeMeans ==
  ASSUME CertTypeOK, NEW ip, Agree(ip), NEW p \in Service
  PROVE  Matches(p) /\ disk[<<p, "crt">>] \in 1 .. Len(issues) /\ issues[disk[<<p, "crt">>]].ip = ip
<1>1. PICK n \in 1 .. Len(issues) : issues[n].ip = ip /\ \A f \in Leaves : disk[f] = n
  BY DEF Agree
<1>2. n # 0
  BY <1>1 DEF CertTypeOK
<1>3. disk[<<p, "crt">>] = n /\ disk[<<p, "key">>] = n
  BY <1>1, FileFacts
<1>4. QED
  BY <1>1, <1>2, <1>3 DEF Matches

\* A step that is not of a busy request disturbs nobody or everybody
LEMMA HealElsewhere ==
  ASSUME HealInv, [OtaNext]_otaVars, \A x \in Web : ~Serve(x)
  PROVE  HealGoal'
<1>0. /\ OtaTypeOK /\ Resting /\ AloneIsAlone /\ FinishedIsIdle /\ AloneBrought /\ EnableHeals
  BY DEF HealInv, ServerInv
<1>1. CASE /\ \A x \in Web : alone'[x] => alone[x] /\ step'[x] = "idle" /\ step' = step
           /\ finished' => FALSE
  BY <1>0, <1>1 DEF HealGoal, AloneIsAlone, FinishedIsIdle, AloneBrought, EnableHeals, Brought,
     Written
<1>2. CASE Start \/ RunCommand \/ CommandFails
  <2>1. server = "down"
    BY <1>2, CommandIsDown DEF Start, HealInv
  <2>2. ~finished /\ \A x \in Web : step[x] = "idle"
    BY <1>0, <2>1 DEF FinishedIsIdle, Resting
  <2>3. UNCHANGED <<finished, alone, step>>
    BY <1>2 DEF Start, RunCommand, CommandFails
  <2>4. QED
    BY <1>1, <2>2, <2>3
<1>3. ASSUME NEW gone \in {{Command}, Web}, Crash(gone) PROVE HealGoal'
  <2>1. finished' = FALSE /\ \A x \in Web : ~alone'[x]
    BY <1>3 DEF Crash, Disturb
  <2>2. QED
    BY <1>1, <2>1
<1>4. ASSUME NEW x \in Web, NEW s \in {Off} \cup [enabled : {TRUE}, ip : Address], Ask(x, s)
      PROVE  HealGoal'
  <2>1. /\ finished' = FALSE /\ step' = [step EXCEPT ![x] = "image"]
        /\ \A y \in Web : alone'[y] => y = x /\ \A z \in Web : step[z] = "idle"
    BY <1>4 DEF Ask, Busy
  <2>2. step'[x] = "image" /\ \A y \in Web \ {x} : step'[y] = step[y]
    BY <1>0, <2>1 DEF OtaTypeOK
  <2>3. AloneIsAlone'
    BY <2>1, <2>2 DEF AloneIsAlone
  <2>4. AloneBrought'
    BY <2>1, <2>2 DEF AloneBrought, Brought, Written
  <2>5. QED
    BY <2>1, <2>3, <2>4 DEF HealGoal, FinishedIsIdle, EnableHeals
<1>5. ASSUME NEW x \in Web, RequestFails(x) PROVE HealGoal'
  <2>1. /\ finished' = FALSE /\ step[x] # "idle"
        /\ alone' = [alone EXCEPT ![x] = FALSE]
    BY <1>5 DEF RequestFails, Busy
  <2>2. \A y \in Web : ~alone'[y]
    BY <1>0, <2>1 DEF OtaTypeOK, AloneIsAlone
  <2>3. QED
    BY <1>1, <2>1, <2>2
<1>6. CASE CheckVersion \/ Fetch \/ UNCHANGED otaVars
  <2>1. UNCHANGED <<disk, issues, todo, serial, config, image, loaded, server, step, asks, alone,
                    finished>>
    BY <1>6 DEF CheckVersion, Fetch, otaVars, certVars
  <2>2. QED
    BY <1>0, <2>1 DEF HealGoal, AloneIsAlone, FinishedIsIdle, AloneBrought, EnableHeals, Brought,
       Agree, Presents, Matches
<1>7. QED
  BY <1>2, <1>3, <1>4, <1>5, <1>6 DEF OtaNext

\* What is left to show when a request goes on
LEMMA HealServe ==
  ASSUME HealInv, NEW x \in Web, Serve(x),
         alone[x] /\ step'[x] # "idle" => Brought(x)',
         finished' => step'[x] = "idle" /\ alone[x] /\ EnableHeals'
  PROVE  HealGoal'
<1>0. OtaTypeOK /\ AloneIsAlone /\ AloneBrought
  BY DEF HealInv, ServerInv
<1>1. /\ Busy(x) /\ UNCHANGED <<server, alone>>
      /\ \E place : step' = [step EXCEPT ![x] = place]
  BY DEF Serve, BuildImage, WriteConfig, MakeLeaves, WriteLeaf, ReloadBroker, ReloadQms,
     Reload, StopChildren, StartChildren, Answer, Goto, Busy
<1>2. \A y \in Web \ {x} : step'[y] = step[y]
  BY <1>0, <1>1 DEF OtaTypeOK
<1>3. \A y \in Web \ {x} : ~alone[y]
  BY <1>0, <1>1 DEF AloneIsAlone, Busy
<1>4. AloneIsAlone'
  BY <1>0, <1>1, <1>2, <1>3 DEF AloneIsAlone
<1>5. FinishedIsIdle'
  <2>1. server = "up"
    BY <1>1, BusyIsUp DEF HealInv
  <2>2. QED
    BY <1>0, <1>1, <1>2, <2>1 DEF FinishedIsIdle, AloneIsAlone
<1>6. AloneBrought'
  BY <1>1, <1>3 DEF AloneBrought, Brought, Written
<1>7. EnableHeals'
  BY DEF EnableHeals
<1>8. QED
  BY <1>4, <1>5, <1>6, <1>7 DEF HealGoal

LEMMA HealStep == HealInv /\ [OtaNext]_otaVars => HealGoal'
<1> SUFFICES ASSUME HealInv, [OtaNext]_otaVars PROVE HealGoal'
  OBVIOUS
<1> USE CertificatesAssumption
<1>1. CASE \A x \in Web : ~Serve(x)
  BY <1>1, HealElsewhere
<1>2. ASSUME NEW x \in Web, Serve(x) PROVE HealGoal'
  <2>0. /\ ServerInv /\ OtaTypeOK /\ CertInv /\ CertTypeOK
        /\ AloneIsAlone /\ FinishedIsIdle /\ AloneBrought /\ EnableHeals /\ x \in Writer
    BY DEF HealInv, ServerInv, CertInv, Writer
  <2>1. alone[x] => Brought(x)
    BY <2>0 DEF AloneBrought
  <2>2. Busy(x) /\ ~finished
    BY <1>2, <2>0 DEF FinishedIsIdle, Serve, BuildImage, WriteConfig, MakeLeaves, WriteLeaf,
       ReloadBroker, ReloadQms, Reload, StopChildren, StartChildren, Busy
  <2>3. CertInv' /\ CertTypeOK'
    BY <2>0, CertStep DEF CertInv
  <2>4. \A place : Goto(x, place) => step'[x] = place /\ (place # "idle" => asks' = asks)
    BY <2>0 DEF Goto, OtaTypeOK
  <2>5. CASE BuildImage(x)
    <3>1. step'[x] = "config" /\ asks' = asks /\ finished' = FALSE
          /\ image' = IF asks[x].enabled THEN asks[x].ip ELSE image
      BY <2>2, <2>4, <2>5 DEF BuildImage
    <3>2. Brought(x)'
      BY <3>1 DEF Brought, Written
    <3>3. QED
      BY <1>2, <3>1, <3>2, HealServe
  <2>6. CASE WriteConfig(x)
    <3>1. CASE asks[x].enabled
      <4>1. /\ step[x] = "config" /\ step'[x] = "issue" /\ asks' = asks /\ finished' = FALSE
            /\ config' = asks[x] /\ image' = image
        BY <2>2, <2>4, <2>6, <3>1 DEF WriteConfig
      <4>2. alone[x] => Brought(x)'
        BY <2>1, <3>1, <4>1 DEF Brought, Written
      <4>3. QED
        BY <1>2, <4>1, <4>2, HealServe
    <3>2. CASE ~asks[x].enabled
      <4>1. step'[x] = "idle" /\ finished' = alone[x] /\ config' = asks[x]
        BY <2>4, <2>6, <3>2 DEF WriteConfig, Answer
      <4>2. EnableHeals'
        BY <3>2, <4>1 DEF EnableHeals
      <4>3. QED
        BY <1>2, <4>1, <4>2, HealServe
    <3>3. QED
      BY <3>1, <3>2
  <2>7. CASE MakeLeaves(x)
    <3>1. /\ step[x] = "issue" /\ step'[x] = "leaves" /\ asks' = asks /\ finished' = FALSE
          /\ UNCHANGED <<config, image>> /\ Reissue(x, asks[x].ip)
      BY <2>2, <2>4, <2>7 DEF MakeLeaves
    <3>2. asks[x].ip \in Address \cup {NoAddress}
      BY <2>0 DEF OtaTypeOK, Setting
    <3>3. issues'[serial'[x]].ip = asks[x].ip /\ todo'[x] = LeafFiles
      BY <2>0, <2>2, <3>1, <3>2, BusyIsUp, ReissueKeeps
    <3>4. alone[x] => Brought(x)'
      BY <2>1, <3>1, <3>3 DEF Brought, Written, Leaves
    <3>5. QED
      BY <1>2, <3>1, <3>4, HealServe
  <2>8. CASE WriteLeaf(x)
    <3>1. /\ step[x] = "leaves" /\ step'[x] = (IF todo'[x] = <<>> THEN "brk2" ELSE "leaves")
          /\ asks' = asks /\ finished' = FALSE
          /\ UNCHANGED <<config, image>> /\ WriteNext(x)
      BY <2>2, <2>4, <2>8 DEF WriteLeaf
    <3>2. /\ issues' = issues /\ disk' = [disk EXCEPT ![Head(todo[x])] = serial[x]]
          /\ Names(todo[x]) \subseteq {Head(todo[x])} \cup Names(todo'[x])
          /\ todo'[x] # <<>> => serial'[x] = serial[x]
      BY <2>0, <3>1, WriteNextEffect
    <3>3. Head(todo[x]) \in Leaves /\ serial[x] \in 1 .. Len(issues)
      BY <2>0, <2>2, <3>1, BusyIsUp, WebWriteKeeps
    <3>4. ASSUME alone[x], NEW f \in Leaves PROVE disk'[f] = serial[x] \/ f \in Names(todo'[x])
      BY <2>0, <2>1, <3>1, <3>2, <3>3, <3>4, FileFacts DEF Brought, CertTypeOK
    <3>5. CASE todo'[x] = <<>>
      <4>1. ASSUME alone[x] PROVE Agree(asks[x].ip)'
        <5>1. \A f \in Leaves : disk'[f] = serial[x]
          BY <3>4, <3>5, <4>1, NamesOfEmpty
        <5>2. issues[serial[x]].ip = asks[x].ip
          BY <2>1, <3>1, <4>1 DEF Brought
        <5>3. QED
          BY <3>1, <3>2, <3>3, <5>1, <5>2 DEF Agree, Leaves
      <4>2. alone[x] => Brought(x)'
        BY <2>1, <3>1, <3>5, <4>1 DEF Brought, Written
      <4>3. QED
        BY <1>2, <3>1, <4>2, HealServe
    <3>6. CASE todo'[x] # <<>>
      <4>1. alone[x] => Brought(x)'
        BY <2>1, <3>1, <3>2, <3>4, <3>6 DEF Brought, Written, Leaves
      <4>2. QED
        BY <1>2, <3>1, <4>1, HealServe
    <3>7. QED
      BY <3>5, <3>6
  <2>9. ASSUME NEW p \in Service, NEW next, Reload(x, p, next), alone[x],
               step[x] \in {"brk2", "qms"}
        PROVE  /\ step'[x] = next /\ (next # "idle" => asks' = asks)
               /\ loaded' = [loaded EXCEPT ![p] = disk[<<p, "crt">>]]
               /\ UNCHANGED <<disk, issues, config, image>>
    <3>1. Loads(p)
      BY <2>0, <2>1, <2>9, AgreeMeans DEF Brought, Loads
    <3>2. QED
      BY <2>4, <2>9, <3>1 DEF Reload, certVars
  <2>10. CASE ReloadBroker(x)
    <3>1. step[x] = "brk2" /\ finished' = FALSE
      BY <2>2, <2>10 DEF ReloadBroker, Reload
    <3>2. alone[x] => Brought(x)'
      BY <2>0, <2>1, <2>9, <2>10, <3>1
      DEF ReloadBroker, Service, OtaTypeOK, Brought, Written, Agree, Presents
    <3>3. QED
      BY <1>2, <3>1, <3>2, HealServe
  <2>11. CASE ReloadQms(x)
    <3>1. step[x] = "qms" /\ finished' = FALSE
      BY <2>2, <2>11 DEF ReloadQms, Reload
    <3>2. alone[x] => Brought(x)'
      BY <2>0, <2>1, <2>9, <2>11, <3>1
      DEF ReloadQms, Service, OtaTypeOK, Brought, Written, Agree, Presents
    <3>3. QED
      BY <1>2, <3>1, <3>2, HealServe
  <2>12. CASE StopChildren(x)
    <3>1. /\ step[x] = "mef" /\ step'[x] = "restart" /\ asks' = asks /\ finished' = FALSE
          /\ loaded' = [loaded EXCEPT !["mef"] = 0]
          /\ UNCHANGED <<disk, issues, config, image>>
      BY <2>2, <2>4, <2>12 DEF StopChildren, Stopped, certVars
    <3>2. alone[x] => Brought(x)'
      BY <2>0, <2>1, <3>1 DEF Service, OtaTypeOK, Brought, Written, Agree, Presents
    <3>3. QED
      BY <1>2, <3>1, <3>2, HealServe
  <2>13. CASE StartChildren(x)
    <3>1. /\ step[x] = "restart" /\ step'[x] = "idle" /\ finished' = alone[x]
          /\ UNCHANGED <<disk, issues, config, image>>
      BY <2>4, <2>13 DEF StartChildren, Answer, certVars
    <3>2. ASSUME alone[x] PROVE EnableHeals'
      <4>1. /\ config = asks[x] /\ image = config.ip /\ Agree(config.ip)
            /\ Presents("brk2") /\ Presents("qms") /\ loaded["mef"] = 0
        BY <2>1, <3>1, <3>2 DEF Brought, Written
      <4>2. Loads("mef")
        BY <2>0, <4>1, AgreeMeans DEF Loads, Service
      <4>3. loaded' = [loaded EXCEPT !["mef"] = disk[<<"mef", "crt">>]]
        BY <2>13, <4>1, <4>2 DEF StartChildren
      <4>4. \A p \in Service : loaded'[p] = disk[<<p, "crt">>]
        BY <2>0, <4>1, <4>3 DEF OtaTypeOK, Service, Presents
      <4>5. \A p \in Service : Matches(p) /\ issues[disk[<<p, "crt">>]].ip = config.ip
        BY <2>0, <4>1, AgreeMeans
      <4>6. QED
        BY <3>1, <4>1, <4>4, <4>5 DEF EnableHeals, Matches
    <3>3. QED
      BY <1>2, <3>1, <3>2, HealServe
  <2>14. QED
    BY <1>2, <2>5, <2>6, <2>7, <2>8, <2>10, <2>11, <2>12, <2>13 DEF Serve
<1>3. QED
  BY <1>1, <1>2

\* After an "Enable & Build" that ended well and alone, one address stands in the
\* configuration, the image, the files and what every service presents
\* (configure, generate_local_endpoint_certificates, reload_tls_services)
THEOREM EnableLeavesOneAddress == OtaSpec => []EnableHeals
<1>1. OtaInit => HealInv
  <2>1. ASSUME OtaInit PROVE AloneIsAlone /\ FinishedIsIdle /\ AloneBrought /\ EnableHeals
    BY <2>1 DEF OtaInit, AloneIsAlone, FinishedIsIdle, AloneBrought, EnableHeals
  <2>2. QED
    BY <2>1, ServerInvInit DEF HealInv
<1>2. HealInv /\ [OtaNext]_otaVars => HealInv'
  <2>1. ServerInv /\ [OtaNext]_otaVars => ServerInv'
    BY CertStep, ServerStep, OtaTypeStep DEF ServerInv
  <2>2. QED
    BY <2>1, HealStep DEF HealInv, HealGoal
<1>3. HealInv => EnableHeals
  BY DEF HealInv
<1>4. QED
  BY <1>1, <1>2, <1>3, PTL DEF OtaSpec
=============================================================================
