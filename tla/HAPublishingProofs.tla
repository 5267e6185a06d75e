------------------------- MODULE HAPublishingProofs -------------------------
(***************************************************************************)
(* For any readings, and any number of requests, reports and lost links:   *)
(* what Home Assistant is offered follows the link of the device.          *)
(*                                                                         *)
(* The inductive invariant says why.  A request works on a linked device   *)
(* until it writes the file; from the moment it has withdrawn the          *)
(* discovery to the next link no other thread is at work on the device,    *)
(* unless two of them raced, so that nobody announces it again; and a      *)
(* linked device is announced, or somebody is still about to.              *)
(***************************************************************************)
EXTENDS HAPublishing, TLAPS

\* A request that is about to write that the device is linked no longer
Removing == at[Request] = "write" /\ job \in {"unlink", "delete"}

JobsFit ==
  /\ at[Request] = "read" => job \in {"link", "unlink"}
  /\ at[Request] = "remove" => job \in {"unlink", "delete"}

RequestHasLink == at[Request] \notin {"idle", "read", "list", "write"} => device = "linked"

OthersRest ==
  ~raced /\ (Removing \/ device # "linked") => ~Working(Publisher) /\ ~Working(Network)

Withdrawn ==
  ~raced /\ ~failed /\ (Removing \/ device # "linked") => ~topic.discovery

Announced ==
  ~failed /\ Delivers /\ device = "linked" =>
    \/ topic.discovery \/ Removing
    \/ at[Network] \in {"list", "discover"}
    \/ at[Request] \in {"list", "discover"} /\ job \in {"link", "rename"}

PubInv ==
  /\ PubTypeOK
  /\ JobsFit /\ RequestHasLink /\ OthersRest /\ Withdrawn /\ Announced

-----------------------------------------------------------------------------
\* Moving a thread keeps the types of what it keeps for itself
LEMMA GoTypes ==
  ASSUME PubTypeOK, NEW x \in Thread, NEW place \in Place, Go(x, place)
  PROVE  at' \in [Thread -> Place] /\ seen' \in [Thread -> State] /\ job' \in Job \cup {"none"}
<1>1. Offline \in State
  BY PublishingAssumption DEF Offline, State
<1>2. QED
  BY <1>1 DEF PubTypeOK, Go

LEMMA RaceTypes == ASSUME PubTypeOK, NEW x, Race(x) PROVE raced' \in BOOLEAN
BY DEF PubTypeOK, Race

\* After the capabilities come the readings, or at once the availability
LEMMA AfterCapsPlaces == \A x : AfterCaps(x) \in {"state", "availability"}
BY DEF AfterCaps

LEMMA PubTypeStep == PubTypeOK /\ [PubNext]_pubVars => PubTypeOK'
<1> SUFFICES ASSUME PubTypeOK, [PubNext]_pubVars PROVE PubTypeOK'
  OBVIOUS
<1> USE PublishingAssumption DEF PubTypeOK, publics, history, Thread, Place, State, Job,
                                 Offline, Spend, Go, Raise, Skip, Publish, Race
<1>1. ASSUME NEW s \in State, Report(s) PROVE PubTypeOK'
  BY <1>1 DEF Report
<1>2. ASSUME NEW what \in Job, AskFor(what) PROVE PubTypeOK'
  BY <1>2 DEF AskFor
<1>3. CASE Enroll
  BY <1>3 DEF Enroll
<1>4. CASE Connect
  BY <1>4 DEF Connect
<1>5. CASE Disconnect
  <2>1. at' \in [Thread -> Place] /\ seen' \in [Thread -> State] /\ job' \in Job \cup {"none"}
    BY <1>5, GoTypes DEF Disconnect
  <2>2. spent' \in [requests : 0 .. MaxAsked, reports : 0 .. MaxReports, drops : 0 .. MaxDrops]
    BY <1>5 DEF Disconnect
  <2>3. link' = FALSE /\ UNCHANGED <<device, stat, publics, history>>
    BY <1>5 DEF Disconnect
  <2>4. QED
    BY <2>1, <2>2, <2>3
<1>6. CASE ReadDevice
  <2>1. \E place \in Place : Go(Request, place)
    BY <1>6 DEF ReadDevice
  <2>2. at' \in [Thread -> Place] /\ seen' \in [Thread -> State] /\ job' \in Job \cup {"none"}
    BY <2>1, GoTypes
  <2>3. raced' \in BOOLEAN
    BY <1>6, RaceTypes DEF ReadDevice
  <2>4. UNCHANGED <<device, stat, topic, lastCaps, lastState, link, failed, spent>>
    BY <1>6 DEF ReadDevice
  <2>5. QED
    BY <2>2, <2>3, <2>4
<1>7. CASE RemoveDiscovery
  BY <1>7 DEF RemoveDiscovery
<1>8. CASE WriteDevice
  <2>1. \E place \in Place : Go(Request, place)
    BY <1>8 DEF WriteDevice, AfterLink
  <2>2. at' \in [Thread -> Place] /\ seen' \in [Thread -> State] /\ job' \in Job \cup {"none"}
    BY <2>1, GoTypes
  <2>3. device' \in {"none", "unlinked", "linked"} /\ stat' \in State
    <3>1. device' \in {device, "none", "unlinked", "linked"}
      BY <1>8 DEF WriteDevice
    <3>2. stat' = stat \/ stat' = Offline
      BY <1>8 DEF WriteDevice
    <3>3. Offline \in State /\ stat \in State
      OBVIOUS
    <3>4. stat' \in State
      BY <3>2, <3>3, Zenon
    <3>5. QED
      BY <3>1, <3>4
  <2>4. UNCHANGED <<topic, lastCaps, lastState, link, failed, raced, spent>>
    BY <1>8 DEF WriteDevice
  <2>5. QED
    BY <2>2, <2>3, <2>4
<1>9. ASSUME NEW x \in Thread, Works(x) PROVE PubTypeOK'
  <2>1. CASE List(x)
    <3>1. CASE Skip(x) \/ Raise(x)
      <4>1. \E place \in Place : Go(x, place)
        BY <3>1
      <4>2. at' \in [Thread -> Place] /\ seen' \in [Thread -> State] /\ job' \in Job \cup {"none"}
        BY <4>1, GoTypes
      <4>3. failed' \in BOOLEAN /\ raced' \in BOOLEAN
        BY <2>1 DEF List
      <4>4. UNCHANGED <<device, stat, topic, lastCaps, lastState, link, spent>>
        BY <2>1 DEF List
      <4>5. QED
        BY <4>2, <4>3, <4>4
    <3>2. CASE /\ at' = [at EXCEPT ![x] = First(x)] /\ seen' = [seen EXCEPT ![x] = stat]
               /\ Race(x) /\ UNCHANGED <<job, failed>>
      <4>1. First(x) \in Place
        BY DEF First
      <4>2. raced' \in BOOLEAN
        BY <3>2, RaceTypes
      <4>3. UNCHANGED <<device, stat, topic, lastCaps, lastState, link, spent>>
        BY <2>1 DEF List
      <4>4. QED
        BY <3>2, <4>1, <4>2, <4>3
    <3>3. QED
      BY <2>1, <3>1, <3>2 DEF List
  <2>2. CASE Discover(x)
    BY <2>2 DEF Discover
  <2>3. CASE Compare(x)
    <3>1. \E place \in Place : Go(x, place)
      BY <2>3, AfterCapsPlaces DEF Compare
    <3>2. at' \in [Thread -> Place] /\ seen' \in [Thread -> State] /\ job' \in Job \cup {"none"}
      BY <3>1, GoTypes
    <3>3. lastCaps' \in {"none", "plain", "extended"}
      BY <2>3 DEF Compare
    <3>4. UNCHANGED <<device, stat, topic, lastState, link, failed, raced, spent>>
      BY <2>3 DEF Compare
    <3>5. QED
      BY <3>2, <3>3, <3>4
  <2>4. CASE SetCaps(x)
    <3>1. \E place \in Place : Go(x, place)
      BY <2>4, AfterCapsPlaces DEF SetCaps
    <3>2. at' \in [Thread -> Place] /\ seen' \in [Thread -> State] /\ job' \in Job \cup {"none"}
      BY <3>1, GoTypes
    <3>3. lastCaps' \in {"none", "plain", "extended"}
      BY <2>4 DEF SetCaps, Caps
    <3>4. UNCHANGED <<device, stat, topic, lastState, link, failed, raced, spent>>
      BY <2>4 DEF SetCaps
    <3>5. QED
      BY <3>2, <3>3, <3>4
  <2>5. CASE PublishState(x)
    BY <2>5 DEF PublishState
  <2>6. CASE Remember(x)
    BY <2>6 DEF Remember
  <2>7. CASE PublishAvailability(x)
    BY <2>7 DEF PublishAvailability
  <2>8. QED
    BY <1>9, <2>1, <2>2, <2>3, <2>4, <2>5, <2>6, <2>7 DEF Works
<1>10. CASE UNCHANGED pubVars
  BY <1>10 DEF pubVars, publics, history
<1>11. QED
  BY <1>1, <1>2, <1>3, <1>4, <1>5, <1>6, <1>7, <1>8, <1>9, <1>10 DEF PubNext, Progress

LEMMA JobStep == PubInv /\ [PubNext]_pubVars => (JobsFit /\ RequestHasLink)'
<1> SUFFICES ASSUME PubInv, [PubNext]_pubVars PROVE (JobsFit /\ RequestHasLink)'
  OBVIOUS
<1> USE PublishingAssumption DEF PubInv, PubTypeOK, publics, history, Thread, Place, Job,
                                 JobsFit, RequestHasLink, Go, Raise, Skip, First, MustRemove,
                                 AfterLink
<1>1. ASSUME NEW s \in State, Report(s) PROVE (JobsFit /\ RequestHasLink)'
  BY <1>1 DEF Report
<1>2. ASSUME NEW what \in Job, AskFor(what) PROVE (JobsFit /\ RequestHasLink)'
  BY <1>2 DEF AskFor
<1>3. CASE Enroll
  BY <1>3 DEF Enroll
<1>4. CASE Connect
  BY <1>4 DEF Connect
<1>5. CASE Disconnect
  BY <1>5 DEF Disconnect
<1>6. CASE ReadDevice
  BY <1>6 DEF ReadDevice
<1>7. CASE RemoveDiscovery
  BY <1>7 DEF RemoveDiscovery
<1>8. CASE WriteDevice
  BY <1>8 DEF WriteDevice
<1>9. ASSUME NEW x \in Thread, Works(x) PROVE (JobsFit /\ RequestHasLink)'
  <2>1. CASE List(x)
    BY <2>1 DEF List
  <2>2. CASE Discover(x)
    BY <2>2 DEF Discover
  <2>3. CASE Compare(x)
    <3>1. PICK place \in Place \ {"remove", "read", "list", "write"} : Go(x, place)
      BY <2>3, AfterCapsPlaces DEF Compare
    <3>2. device' = device /\ at[x] \notin {"idle", "read", "list", "write", "remove"}
      BY <2>3 DEF Compare
    <3>3. QED
      BY <3>1, <3>2
  <2>4. CASE SetCaps(x)
    <3>1. PICK place \in Place \ {"remove", "read", "list", "write"} : Go(x, place)
      BY <2>4, AfterCapsPlaces DEF SetCaps
    <3>2. device' = device /\ at[x] \notin {"idle", "read", "list", "write", "remove"}
      BY <2>4 DEF SetCaps
    <3>3. QED
      BY <3>1, <3>2
  <2>5. CASE PublishState(x)
    BY <2>5 DEF PublishState
  <2>6. CASE Remember(x)
    BY <2>6 DEF Remember
  <2>7. CASE PublishAvailability(x)
    BY <2>7 DEF PublishAvailability
  <2>8. QED
    BY <1>9, <2>1, <2>2, <2>3, <2>4, <2>5, <2>6, <2>7 DEF Works
<1>10. CASE UNCHANGED pubVars
  BY <1>10 DEF pubVars, publics, history
<1>11. QED
  BY <1>1, <1>2, <1>3, <1>4, <1>5, <1>6, <1>7, <1>8, <1>9, <1>10 DEF PubNext, Progress

\* The steps of publish_state that publish nothing change nothing of the rest
LEMMA QuietSteps ==
  ASSUME PubTypeOK, NEW x \in Thread, Compare(x) \/ SetCaps(x)
  PROVE  /\ \E place \in {"again", "state", "availability"} : at' = [at EXCEPT ![x] = place]
         /\ at[x] \in {"compare", "caps"}
         /\ UNCHANGED <<device, topic, link, job, failed, raced>>
<1> USE PublishingAssumption
<1>1. \E place \in {"again", "state", "availability"} : Go(x, place)
  BY AfterCapsPlaces DEF Compare, SetCaps
<1>2. at[x] \in {"compare", "caps"}
  BY DEF Compare, SetCaps
<1>3. UNCHANGED <<device, topic, link, failed, raced>>
  BY DEF Compare, SetCaps, publics, history
<1>4. QED
  BY <1>1, <1>2, <1>3 DEF Go, Thread

LEMMA RestStep == PubInv /\ [PubNext]_pubVars => OthersRest'
<1> SUFFICES ASSUME PubInv, [PubNext]_pubVars PROVE OthersRest'
  OBVIOUS
<1> USE PublishingAssumption DEF PubInv, PubTypeOK, publics, history, Thread, Place, Job, Go,
                                 Raise, Skip, First, MustRemove, AfterLink, Removing,
                                 OthersRest, JobsFit, RequestHasLink, Race, Working
<1>1. ASSUME NEW s \in State, Report(s) PROVE OthersRest'
  BY <1>1 DEF Report
<1>2. ASSUME NEW what \in Job, AskFor(what) PROVE OthersRest'
  BY <1>2 DEF AskFor
<1>3. CASE Enroll
  BY <1>3 DEF Enroll
<1>4. CASE Connect
  BY <1>4 DEF Connect
<1>5. CASE Disconnect
  BY <1>5 DEF Disconnect
<1>6. CASE ReadDevice
  BY <1>6 DEF ReadDevice
<1>7. CASE RemoveDiscovery
  BY <1>7 DEF RemoveDiscovery
<1>8. CASE WriteDevice
  BY <1>8 DEF WriteDevice
<1>9. ASSUME NEW x \in Thread, Works(x) PROVE OthersRest'
  <2>1. CASE List(x)
    <3>1. UNCHANGED <<device, topic, link>> /\ at[x] \in {"list", "idle"}
      BY <2>1 DEF List
    <3>2. CASE device # "linked" /\ Skip(x) /\ UNCHANGED history
      BY <3>1, <3>2
    <3>3. CASE Raise(x) /\ failed' = (failed \/ x = Request) /\ UNCHANGED raced
      BY <3>1, <3>3
    <3>4. CASE /\ device = "linked" /\ at' = [at EXCEPT ![x] = First(x)]
               /\ Race(x) /\ UNCHANGED <<job, failed>>
      BY <3>1, <3>4
    <3>5. QED
      BY <2>1, <3>2, <3>3, <3>4 DEF List
  <2>2. CASE Discover(x)
    BY <2>2 DEF Discover
  <2>3. CASE Compare(x)
    BY <2>3, QuietSteps
  <2>4. CASE SetCaps(x)
    BY <2>4, QuietSteps
  <2>5. CASE PublishState(x)
    BY <2>5 DEF PublishState
  <2>6. CASE Remember(x)
    BY <2>6 DEF Remember
  <2>7. CASE PublishAvailability(x)
    BY <2>7 DEF PublishAvailability
  <2>8. QED
    BY <1>9, <2>1, <2>2, <2>3, <2>4, <2>5, <2>6, <2>7 DEF Works
<1>10. CASE UNCHANGED pubVars
  BY <1>10 DEF pubVars, publics, history
<1>11. QED
  BY <1>1, <1>2, <1>3, <1>4, <1>5, <1>6, <1>7, <1>8, <1>9, <1>10 DEF PubNext, Progress

LEMMA WithdrawnStep == PubInv /\ [PubNext]_pubVars => Withdrawn'
<1> SUFFICES ASSUME PubInv, [PubNext]_pubVars PROVE Withdrawn'
  OBVIOUS
<1> USE PublishingAssumption DEF PubInv, PubTypeOK, publics, history, Thread, Place, Job, Go,
                                 Raise, Skip, First, MustRemove, AfterLink, Removing,
                                 OthersRest, JobsFit, RequestHasLink, Withdrawn, Race,
                                 Working, Publish
<1>1. ASSUME NEW s \in State, Report(s) PROVE Withdrawn'
  BY <1>1 DEF Report
<1>2. ASSUME NEW what \in Job, AskFor(what) PROVE Withdrawn'
  BY <1>2 DEF AskFor
<1>3. CASE Enroll
  BY <1>3 DEF Enroll
<1>4. CASE Connect
  BY <1>4 DEF Connect
<1>5. CASE Disconnect
  BY <1>5 DEF Disconnect
<1>6. CASE ReadDevice
  <2>1. ~raced' => ~raced
    BY <1>6 DEF ReadDevice
  <2>2. UNCHANGED <<device, topic, failed>>
    BY <1>6 DEF ReadDevice
  <2>3. Removing' => device # "linked"
    <3>1. CASE MustRemove
      <4>1. at'[Request] = "remove"
        BY <1>6, <3>1 DEF ReadDevice
      <4>2. QED
        BY <4>1
    <3>2. CASE ~MustRemove /\ device # "none"
      <4>1. job' = job
        BY <1>6, <3>2 DEF ReadDevice
      <4>2. job \in {"link", "unlink"}
        BY <1>6 DEF ReadDevice
      <4>3. QED
        BY <3>2, <4>1, <4>2
    <3>3. QED
      BY <3>1, <3>2
  <2>4. QED
    BY <2>1, <2>2, <2>3
<1>7. CASE RemoveDiscovery
  BY <1>7 DEF RemoveDiscovery
<1>8. CASE WriteDevice
  BY <1>8 DEF WriteDevice
<1>9. ASSUME NEW x \in Thread, Works(x) PROVE Withdrawn'
  <2>1. CASE List(x)
    BY <2>1 DEF List
  <2>2. CASE Discover(x)
    BY <2>2 DEF Discover
  <2>3. CASE Compare(x)
    BY <2>3, QuietSteps
  <2>4. CASE SetCaps(x)
    BY <2>4, QuietSteps
  <2>5. CASE PublishState(x)
    BY <2>5 DEF PublishState
  <2>6. CASE Remember(x)
    BY <2>6 DEF Remember
  <2>7. CASE PublishAvailability(x)
    BY <2>7 DEF PublishAvailability
  <2>8. QED
    BY <1>9, <2>1, <2>2, <2>3, <2>4, <2>5, <2>6, <2>7 DEF Works
<1>10. CASE UNCHANGED pubVars
  BY <1>10 DEF pubVars, publics, history
<1>11. QED
  BY <1>1, <1>2, <1>3, <1>4, <1>5, <1>6, <1>7, <1>8, <1>9, <1>10 DEF PubNext, Progress

LEMMA AnnouncedStep == PubInv /\ [PubNext]_pubVars => Announced'
<1> SUFFICES ASSUME PubInv, [PubNext]_pubVars PROVE Announced'
  OBVIOUS
<1> USE PublishingAssumption DEF PubInv, PubTypeOK, publics, history, Thread, Place, Job, Go,
                                 Raise, Skip, First, MustRemove, AfterLink, Removing,
                                 JobsFit, Announced, Publish, Delivers
<1>1. ASSUME NEW s \in State, Report(s) PROVE Announced'
  BY <1>1 DEF Report
<1>2. ASSUME NEW what \in Job, AskFor(what) PROVE Announced'
  BY <1>2 DEF AskFor
<1>3. CASE Enroll
  BY <1>3 DEF Enroll
<1>4. CASE Connect
  BY <1>4 DEF Connect
<1>5. CASE Disconnect
  BY <1>5 DEF Disconnect
<1>6. CASE ReadDevice
  BY <1>6 DEF ReadDevice
<1>7. CASE RemoveDiscovery
  BY <1>7 DEF RemoveDiscovery
<1>8. CASE WriteDevice
  BY <1>8 DEF WriteDevice
<1>9. ASSUME NEW x \in Thread, Works(x) PROVE Announced'
  <2>1. CASE List(x)
    <3>1. UNCHANGED <<device, topic, link>> /\ at[x] \in {"list", "idle"}
      BY <2>1 DEF List
    <3>2. CASE device # "linked" /\ Skip(x) /\ UNCHANGED history
      BY <3>1, <3>2
    <3>3. CASE Raise(x) /\ failed' = (failed \/ x = Request) /\ UNCHANGED raced
      BY <3>1, <3>3
    <3>4. CASE /\ device = "linked" /\ at' = [at EXCEPT ![x] = First(x)]
               /\ Race(x) /\ UNCHANGED <<job, failed>>
      BY <3>1, <3>4
    <3>5. QED
      BY <2>1, <3>2, <3>3, <3>4 DEF List
  <2>2. CASE Discover(x)
    BY <2>2 DEF Discover
  <2>3. CASE Compare(x)
    BY <2>3, QuietSteps
  <2>4. CASE SetCaps(x)
    BY <2>4, QuietSteps
  <2>5. CASE PublishState(x)
    BY <2>5 DEF PublishState
  <2>6. CASE Remember(x)
    BY <2>6 DEF Remember
  <2>7. CASE PublishAvailability(x)
    BY <2>7 DEF PublishAvailability
  <2>8. QED
    BY <1>9, <2>1, <2>2, <2>3, <2>4, <2>5, <2>6, <2>7 DEF Works
<1>10. CASE UNCHANGED pubVars
  BY <1>10 DEF pubVars, publics, history
<1>11. QED
  BY <1>1, <1>2, <1>3, <1>4, <1>5, <1>6, <1>7, <1>8, <1>9, <1>10 DEF PubNext, Progress

-----------------------------------------------------------------------------
LEMMA PubInvInit == PubInit => PubInv
<1> SUFFICES ASSUME PubInit PROVE PubInv
  OBVIOUS
<1> USE PublishingAssumption DEF PubInit
<1>1. PubTypeOK
  <2>1. Offline \in State
    BY DEF Offline, State
  <2>2. at \in [Thread -> Place] /\ seen \in [Thread -> State]
    BY <2>1 DEF Place
  <2>3. topic \in [discovery : BOOLEAN, state : Reading \cup {Nothing},
                   availability : {"online", "offline", "none"}]
    OBVIOUS
  <2>4. spent \in [requests : 0 .. MaxAsked, reports : 0 .. MaxReports, drops : 0 .. MaxDrops]
    OBVIOUS
  <2>5. stat \in State
    BY <2>1
  <2>6. QED
    BY <2>2, <2>3, <2>4, <2>5 DEF PubTypeOK
<1>2. JobsFit /\ RequestHasLink /\ OthersRest /\ Withdrawn /\ Announced
  BY DEF JobsFit, RequestHasLink, OthersRest, Withdrawn, Announced, Working, Removing,
         Delivers, Thread
<1>3. QED
  BY <1>1, <1>2 DEF PubInv

LEMMA PubInvStep == PubInv /\ [PubNext]_pubVars => PubInv'
BY PubTypeStep, JobStep, RestStep, WithdrawnStep, AnnouncedStep DEF PubInv

LEMMA AlwaysPubInv == PubSpec => []PubInv
BY PubInvInit, PubInvStep, PTL DEF PubSpec

\* Every variable keeps its type
THEOREM PublishingTypes == PubSpec => []PubTypeOK
<1>1. PubInv => PubTypeOK
  BY DEF PubInv
<1>2. QED
  BY <1>1, AlwaysPubInv, PTL

\* What Home Assistant is offered follows the link: set_link, remove_device,
\* on_connect and the publisher may overlap at every point
THEOREM DiscoveryIsLinked == PubSpec => []DiscoveryFollowsLink
<1>1. PubInv => DiscoveryFollowsLink
  BY DEF PubInv, DiscoveryFollowsLink, Quiet, Announcing, Announced, Withdrawn, Removing
<1>2. QED
  BY <1>1, AlwaysPubInv, PTL

=============================================================================
