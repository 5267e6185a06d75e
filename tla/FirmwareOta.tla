----------------------------- MODULE FirmwareOta -----------------------------
(***************************************************************************)
(* "Enable & Build" and what follows from it: the patched image and its    *)
(* configuration (src/server/firmware_patch.py), the reissued certificates *)
(* and the TLS services that load them (src/server/app.py), and the MEF    *)
(* process, which reads both files on its own and offers them to a device *)
(* (src/work/ap/mttl_mef_proxy.py).                                        *)
(*                                                                         *)
(* A service that loads a pair reads two files, as one step; it raises on  *)
(* a pair that does not match, like OpenSSL under it.  The device is       *)
(* external: it asks for an update, fetches what it is offered and         *)
(* installs it.                                                            *)
(***************************************************************************)
EXTENDS Certificates

CONSTANTS MaxRequests, MaxTroubles

ASSUME OtaAssumption ==
  /\ MaxRequests \in Nat /\ MaxTroubles \in Nat

VARIABLES
  config,    \* firmware-patch.json: whether enabled, and the address
  image,     \* the address in the patched image, NoAddress before there is one
  loaded,    \* the issue each TLS service presents; 0 while it is not running
  server,    \* "up", or "down" because it was killed or could not start
  step,      \* where a web request stands
  asks,      \* what it asks for
  alone,     \* no other request, failure or crash touched it
  finished,  \* the last request ended well and alone, and nothing happened since
  installed, \* the device's firmware: version and address
  offer,     \* what the device was offered and has not fetched yet
  counts     \* requests; failures and crashes

otaVars == <<certVars, config, image, loaded, server, step, asks, alone, finished,
             installed, offer, counts>>
multitap == <<installed, offer>>

Setting == [enabled : BOOLEAN, ip : Address \cup {NoAddress}]
Firmware == [version : {"1.0.66", "1.0.68"}, ip : Address \cup {NoAddress}]
Stock == [version |-> "1.0.66", ip |-> NoAddress]

OtaTypeOK ==
  /\ CertTypeOK
  /\ config \in Setting /\ image \in Address \cup {NoAddress}
  /\ loaded \in [Service -> 0 .. Len(issues)]
  /\ server \in {"up", "down"}
  /\ step \in [Web -> {"idle", "image", "config", "issue", "leaves", "brk2", "qms", "mef", "restart"}]
  /\ asks \in [Web -> Setting]
  /\ alone \in [Web -> BOOLEAN] /\ finished \in BOOLEAN
  /\ installed \in Firmware
  /\ offer \in {"none", "1.0.66", "1.0.68"}
  /\ counts \in [requests : 0 .. MaxRequests, troubles : 0 .. MaxTroubles]

Off == [enabled |-> FALSE, ip |-> NoAddress]

OtaInit ==
  /\ CertInit
  /\ config = Off /\ image = NoAddress
  /\ loaded = [p \in Service |-> 0] /\ server = "down"
  /\ step = [x \in Web |-> "idle"] /\ asks = [x \in Web |-> Off]
  /\ alone = [x \in Web |-> FALSE] /\ finished = FALSE
  /\ installed = Stock /\ offer = "none"
  /\ counts = [requests |-> 0, troubles |-> 0]

-----------------------------------------------------------------------------
Busy(x) == step[x] # "idle"

\* A request goes on; one that is through forgets what it asked for
Goto(x, place) ==
  /\ step' = [step EXCEPT ![x] = place]
  /\ asks' = IF place = "idle" THEN [asks EXCEPT ![x] = Off] ELSE asks
Count(what, most) == counts[what] < most /\ counts' = [counts EXCEPT ![what] = @ + 1]
Disturb == alone' = [x \in Web |-> FALSE] /\ finished' = FALSE

\* FIRMWARE_PATCH.lock and TLS_RELOAD_LOCK
Building == \E x \in Web : step[x] = "config"
Reloading == \E x \in Web : step[x] \in {"qms", "mef", "restart"}

\* context.load_cert_chain
Loads(p) == Matches(p)

-----------------------------------------------------------------------------
(* The server *)

\* main() looks for the files; MQTTServer and QMSServer load their pairs or the
\* program ends; the MEF process loads its own, and nobody watches it
Start ==
  /\ server = "down" /\ todo[Command] = <<>>
  /\ Whole(BaseFiles) /\ Whole(QmsFiles) /\ Loads("brk2") /\ Loads("qms")
  /\ server' = "up"
  /\ loaded' = [p \in Service |-> IF Loads(p) THEN disk[<<p, "crt">>] ELSE 0]
  /\ UNCHANGED <<certVars, config, image, step, asks, alone, finished, multitap, counts>>

\* The container is killed, or the command in its own container
Crash(gone) ==
  /\ gone \in {{Command}, Web} /\ (gone = Web => server = "up")
  /\ Count("troubles", MaxTroubles)
  /\ Killed(gone) /\ Disturb
  /\ IF gone = Web
     THEN /\ server' = "down" /\ loaded' = [p \in Service |-> 0]
          /\ step' = [x \in Web |-> "idle"] /\ asks' = [x \in Web |-> Off]
     ELSE UNCHANGED <<server, loaded, step, asks>>
  /\ UNCHANGED <<config, image, multitap>>


\* `generate-certs`
RunCommand ==
  /\ Generate \/ WriteNext(Command)
  /\ UNCHANGED <<config, image, loaded, server, step, asks, alone, finished, multitap, counts>>

CommandFails ==
  /\ Count("troubles", MaxTroubles) /\ WriteFails(Command)
  /\ UNCHANGED <<config, image, loaded, server, step, asks, alone, finished, multitap>>

-----------------------------------------------------------------------------
(* POST /api/firmware-patch *)

Ask(x, setting) ==
  /\ server = "up" /\ ~Busy(x)
  /\ Count("requests", MaxRequests)
  /\ asks' = [asks EXCEPT ![x] = setting] /\ step' = [step EXCEPT ![x] = "image"]
  /\ alone' = [y \in Web |-> y = x /\ \A z \in Web : ~Busy(z)]
  /\ finished' = FALSE
  /\ UNCHANGED <<certVars, config, image, loaded, server, multitap>>

\* configure() under its lock: the image first ...
BuildImage(x) ==
  /\ step[x] = "image" /\ ~Building
  /\ image' = IF asks[x].enabled THEN asks[x].ip ELSE image
  /\ Goto(x, "config")
  /\ UNCHANGED <<certVars, config, loaded, server, alone, finished, multitap, counts>>

\* The request is answered; without an enable it is through here
Answer(x) == Goto(x, "idle") /\ finished' = alone[x]

\* ... then the configuration
WriteConfig(x) ==
  /\ step[x] = "config"
  /\ config' = asks[x]
  /\ IF asks[x].enabled THEN Goto(x, "issue") /\ UNCHANGED finished ELSE Answer(x)
  /\ UNCHANGED <<certVars, image, loaded, server, alone, multitap, counts>>

\* generate_local_endpoint_certificates, with no lock at all
MakeLeaves(x) ==
  /\ step[x] = "issue" /\ Reissue(x, asks[x].ip)
  /\ Goto(x, "leaves")
  /\ UNCHANGED <<config, image, loaded, server, alone, finished, multitap, counts>>

WriteLeaf(x) ==
  /\ step[x] = "leaves" /\ WriteNext(x)
  /\ Goto(x, IF todo'[x] = <<>> THEN "brk2" ELSE "leaves")
  /\ UNCHANGED <<config, image, loaded, server, alone, finished, multitap, counts>>

\* reload_tls_services: the two listeners of this process take the new pair.  A torn
\* pair raises, and the request is answered with an error; the listener has then
\* dropped the key of the certificate that was replaced.
Reload(x, p, next) ==
  /\ step[x] = p
  /\ loaded' = [loaded EXCEPT ![p] =
                  IF Loads(p) \/ disk[<<p, "crt">>] = @ THEN disk[<<p, "crt">>] ELSE 0]
  /\ Goto(x, IF Loads(p) THEN next ELSE "idle")
  /\ UNCHANGED <<certVars, config, image, server, alone, finished, multitap, counts>>

ReloadBroker(x) == ~Reloading /\ Reload(x, "brk2", "qms")
ReloadQms(x) == Reload(x, "qms", "mef")

KeepChildren == loaded   \* mutant
Stopped == [loaded EXCEPT !["mef"] = 0]

\* The children are terminated ...
StopChildren(x) ==
  /\ step[x] = "mef"
  /\ loaded' = Stopped
  /\ Goto(x, "restart")
  /\ UNCHANGED <<certVars, config, image, server, alone, finished, multitap, counts>>

\* ... and new ones started; the MEF process ends at once over a torn pair, and
\* the request is answered all the same.  It is answered as soon as the process is
\* there, which loads its pair a moment later: here that is one step.
StartChildren(x) ==
  /\ step[x] = "restart"
  /\ loaded' = IF loaded["mef"] = 0 /\ Loads("mef")
               THEN [loaded EXCEPT !["mef"] = disk[<<"mef", "crt">>]] ELSE loaded
  /\ Answer(x)
  /\ UNCHANGED <<certVars, config, image, server, alone, multitap, counts>>

\* Building, writing or loading raises (a full disk, a process that does not end):
\* the request ends with an error where it stands
RequestFails(x) ==
  /\ Busy(x) /\ Count("troubles", MaxTroubles)
  /\ IF todo[x] # <<>> THEN WriteFails(x) ELSE UNCHANGED certVars
  /\ Goto(x, "idle")
  /\ alone' = [alone EXCEPT ![x] = FALSE] /\ finished' = FALSE
  /\ UNCHANGED <<config, image, loaded, server, multitap>>

-----------------------------------------------------------------------------
(* The MEF process and the device *)

\* _patched_ota_enabled: two files, read without the lock of the other process
Patched == config.enabled /\ image # NoAddress
Target == IF Patched THEN "1.0.68" ELSE "1.0.66"

SameAsTarget(v) == v # "1.0.68"   \* mutant
UpToDate(v) == v = Target

\* updateVersionCheck: an offer unless the device has the target version
CheckVersion ==
  /\ loaded["mef"] # 0 /\ offer = "none"
  /\ ~UpToDate(installed.version) /\ offer' = Target
  /\ UNCHANGED <<certVars, config, image, loaded, server, step, asks, alone, finished, installed, counts>>

\* The device fetches what it was offered.  The patched file of a configuration
\* that was disabled meanwhile is answered with an empty body, and nothing is
\* installed.
Fetch ==
  /\ offer # "none" /\ offer' = "none"
  /\ \/ /\ loaded["mef"] # 0
        /\ \/ offer = "1.0.66" /\ installed' = Stock
           \/ offer = "1.0.68" /\ Patched /\ installed' = [version |-> offer, ip |-> image]
     \/ /\ loaded["mef"] = 0 \/ (offer = "1.0.68" /\ ~Patched)
        /\ UNCHANGED installed
  /\ UNCHANGED <<certVars, config, image, loaded, server, step, asks, alone, finished, counts>>

-----------------------------------------------------------------------------
Serve(x) ==
  \/ BuildImage(x) \/ WriteConfig(x) \/ MakeLeaves(x) \/ WriteLeaf(x)
  \/ ReloadBroker(x) \/ ReloadQms(x) \/ StopChildren(x) \/ StartChildren(x)

OtaNext ==
  \/ Start \/ RunCommand \/ CommandFails
  \/ \E gone \in {{Command}, Web} : Crash(gone)
  \/ \E x \in Web, s \in {Off} \cup [enabled : {TRUE}, ip : Address] : Ask(x, s)
  \/ \E x \in Web : Serve(x) \/ RequestFails(x)
  \/ CheckVersion \/ Fetch

OtaSpec == OtaInit /\ [][OtaNext]_otaVars

-----------------------------------------------------------------------------
(* Properties *)

\* The root that devices were provisioned with stays, with its key, for good, and
\* every leaf written beside it is signed by it: also across generators that were
\* killed or failed halfway, and reissues that overlap.  (The one time a root is
\* taken away is by the command that is still making it.)
OneRoot ==
  [][Whole(BaseFiles) /\ todo[Command] = <<>> =>
       /\ \A f \in Names(PairOf("root")) : disk'[f] = disk[f]
       /\ \A f \in Names(LeafFiles) : disk'[f] # 0 =>
            issues'[disk'[f]].root = disk[<<"root", "key">>]]_otaVars

\* After an "Enable & Build" that ended well and that no other request, failure
\* or crash disturbed, the configuration, the image, the files on disk and what
\* all three services present agree on one address - whatever earlier requests
\* left half done.
EnableHeals ==
  finished /\ config.enabled =>
    /\ image = config.ip
    /\ \A p \in Service : /\ Matches(p) /\ loaded[p] = disk[<<p, "crt">>]
                          /\ issues[loaded[p]].ip = config.ip

\* A device that keeps asking gets the version the switch stands for, and keeps
\* it, as long as the MEF process lives; flipping the switch between offer and
\* download does no more than delay it.
TargetIsReached ==
  <>[](loaded["mef"] # 0) =>
    <>[](installed.version = Target) \/ []<><<Target' # Target>>_otaVars
=============================================================================
