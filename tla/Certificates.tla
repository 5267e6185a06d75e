----------------------------- MODULE Certificates -----------------------------
(***************************************************************************)
(* The certificate directory (src/server/certificates.py): eight files,    *)
(* replaced one after the other, each at once, by the command that makes   *)
(* them and by web requests that reissue the services' leaves.             *)
(*                                                                         *)
(* Every run of a generator is an issue: the files it writes carry its     *)
(* number, so that a certificate belongs to a key when both carry the same *)
(* one.  What an issue's certificates say is kept in `issues`.             *)
(* Two requests that write the same file at one moment share its temporary *)
(* file (_write): one of them then fails, as WriteFails says; that a file  *)
(* cut short takes the place for a moment is left out.                     *)
(***************************************************************************)
EXTENDS Naturals, Sequences

CONSTANTS
  Command,      \* `generate-certs`, run by hand
  Web,          \* threads of the web server that handle a request
  Address,      \* addresses of the server
  NoAddress,    \* certificates without one
  MaxIssues

ASSUME CertificatesAssumption ==
  /\ Command \notin Web /\ NoAddress \notin Address
  /\ MaxIssues \in Nat \ {0}   \* a directory may begin with one

Service == {"mef", "brk2", "qms"}
File == ({"root"} \cup Service) \X {"crt", "key"}
Writer == {Command} \cup Web

PairOf(p) == << <<p, "crt">>, <<p, "key">> >>
BaseFiles == PairOf("root") \o PairOf("mef") \o PairOf("brk2")
QmsFiles == PairOf("qms")
LeafFiles == PairOf("mef") \o PairOf("brk2") \o QmsFiles

VARIABLES
  disk,     \* the issue a file comes from; 0 when there is no file
  issues,   \* for every issue the root that signed it and the address it names
  todo,     \* the files a writer has still to write
  serial    \* the issue it writes; 0 while it writes none

certVars == <<disk, issues, todo, serial>>

CertTypeOK ==
  /\ disk \in [File -> 0 .. Len(issues)]
  /\ issues \in Seq([root : 1 .. MaxIssues, ip : Address \cup {NoAddress}])
  /\ Len(issues) <= MaxIssues
  /\ todo \in [Writer -> Seq(File)]
  /\ serial \in [Writer -> 0 .. Len(issues)]

\* An empty directory, or one of a version before the QMS service
CertInit ==
  /\ \/ disk = [f \in File |-> 0] /\ issues = <<>>
     \/ /\ disk = [f \in File |-> IF f[1] = "qms" THEN 0 ELSE 1]
        /\ issues = << [root |-> 1, ip |-> NoAddress] >>
  /\ todo = [x \in Writer |-> <<>>]
  /\ serial = [x \in Writer |-> 0]

-----------------------------------------------------------------------------
Names(files) == {files[n] : n \in DOMAIN files}
Existing(files) == {f \in Names(files) : disk[f] # 0}
Whole(files) == Existing(files) = Names(files)
Matches(p) == disk[<<p, "crt">>] = disk[<<p, "key">>] /\ disk[<<p, "crt">>] # 0

\* A writer makes its keys and certificates in memory before it writes the first
Issue(x, root, ip, files) ==
  /\ Len(issues) < MaxIssues
  /\ issues' = Append(issues, [root |-> root, ip |-> ip])
  /\ serial' = [serial EXCEPT ![x] = Len(issues) + 1]
  /\ todo' = [todo EXCEPT ![x] = files]
  /\ UNCHANGED disk

Unfinished == ~(Whole(BaseFiles) /\ Whole(QmsFiles))   \* mutant
FromScratch == Existing(BaseFiles) = {}

\* generate_certificates: everything when no base file is there, the QMS pair
\* when only that is missing; an incomplete set or pair is refused
Generate ==
  /\ todo[Command] = <<>>
  /\ \/ /\ FromScratch
        /\ Issue(Command, Len(issues) + 1, NoAddress, BaseFiles \o QmsFiles)
     \/ /\ Whole(BaseFiles) /\ Existing(QmsFiles) = {}
        /\ Issue(Command, disk[<<"root", "key">>], NoAddress, QmsFiles)

\* generate_local_endpoint_certificates: only the leaves, signed by the root.
\* A missing root raises.
Reissue(x, ip) == Issue(x, disk[<<"root", "key">>], ip, LeafFiles)

\* Some writers have nothing more to write
Done(gone) == serial' = [x \in Writer |-> IF x \in gone THEN 0 ELSE serial[x]]

\* _write: the next file is replaced
WriteNext(x) ==
  /\ todo[x] # <<>>
  /\ disk' = [disk EXCEPT ![Head(todo[x])] = serial[x]]
  /\ todo' = [todo EXCEPT ![x] = Tail(@)]
  /\ Done(IF Len(todo[x]) = 1 THEN {x} ELSE {})
  /\ UNCHANGED issues

\* A write fails.  generate_certificates removes the whole set, or the one
\* certificate of the pair it adds; reissuing leaves what it wrote.
WriteFails(x) ==
  /\ todo[x] # <<>>
  /\ todo' = [todo EXCEPT ![x] = <<>>] /\ Done({x})
  /\ disk' = CASE x # Command -> disk
               [] x = Command /\ issues[serial[x]].root = serial[x] -> [f \in File |-> 0]
               [] OTHER -> [disk EXCEPT ![<<"qms", "crt">>] = 0]
  /\ UNCHANGED issues

\* The process of a writer is killed between two files
Killed(gone) ==
  /\ todo' = [x \in Writer |-> IF x \in gone THEN <<>> ELSE todo[x]] /\ Done(gone)
  /\ UNCHANGED <<disk, issues>>
=============================================================================
