---------------------------- MODULE HAPublishing ----------------------------
(***************************************************************************)
(* What Home Assistant is shown of one device (src/server/ha_mqtt.py): the *)
(* retained topics on the broker, written by three threads that hold no    *)
(* lock from reading the files to publishing what they read -              *)
(*   Request    a web request: link, unlink, rename or delete,             *)
(*   Publisher  the loop that publishes every two seconds,                 *)
(*   Network    the on_connect callback, under self.lock throughout.       *)
(*                                                                         *)
(* The discovery topics of a device, written one after the other with one  *)
(* value, are one topic here.  The dashboard asks one thing at a time.     *)
(* The broker keeps what it gets; what paho queues on a broken link counts *)
(* as lost.                                                                *)
(***************************************************************************)
EXTENDS Naturals

CONSTANTS
  Reading,      \* what a state file says besides `online`
  Extended,     \* the readings of an extended report
  Blank,        \* the reading of a device that has not reported
  Request, Publisher, Network,
  Nothing,      \* no value yet
  MaxAsked, MaxReports, MaxDrops

Thread == {Request, Publisher, Network}

ASSUME PublishingAssumption ==
  /\ Blank \in Reading /\ Nothing \notin Reading
  /\ Extended \subseteq Reading \ {Blank}
  /\ Request # Publisher /\ Publisher # Network /\ Network # Request
  /\ MaxAsked \in Nat /\ MaxReports \in Nat /\ MaxDrops \in Nat

VARIABLES
  device,     \* devices/<mac>.json: "none", or its ha_link: "unlinked" or "linked"
  stat,       \* state/<mac>.json: the reading and `online`
  topic,      \* the retained topics: discovery, state, availability
  lastCaps,   \* last_capabilities: whether extended readings were announced
  lastState,  \* last_states
  link,       \* whether the bridge is connected
  at,         \* where a thread stands
  job,        \* what the request asked for
  seen,       \* the copy of `stat` a thread publishes from
  failed,     \* a request did not publish what it was to: list_devices raised
              \* after it wrote the file, or it removed without a connection
  raced,      \* two threads worked on the device at the same time
  spent       \* requests, reports and lost links so far

publics == <<topic, lastCaps, lastState>>
history == <<failed, raced>>
pubVars == <<device, stat, publics, link, at, job, seen, history, spent>>

State == [reading : Reading, online : BOOLEAN]
Job == {"link", "unlink", "rename", "delete"}
Place == {"idle", "dead", "read", "remove", "write", "list", "discover",
          "compare", "again", "caps", "state", "remember", "availability"}

PubTypeOK ==
  /\ device \in {"none", "unlinked", "linked"} /\ stat \in State
  /\ topic \in [discovery : BOOLEAN, state : Reading \cup {Nothing},
                availability : {"online", "offline", "none"}]
  /\ lastCaps \in {"none", "plain", "extended"}
  /\ lastState \in Reading \cup {Nothing}
  /\ at \in [Thread -> Place] /\ job \in Job \cup {"none"}
  /\ seen \in [Thread -> State]
  /\ {link, failed, raced} \subseteq BOOLEAN
  /\ spent \in [requests : 0 .. MaxAsked, reports : 0 .. MaxReports, drops : 0 .. MaxDrops]

Offline == [reading |-> Blank, online |-> FALSE]

PubInit ==
  /\ device = "unlinked" /\ stat = Offline
  /\ topic = [discovery |-> FALSE, state |-> Nothing, availability |-> "none"]
  /\ lastCaps = "none" /\ lastState = Nothing
  /\ link = FALSE
  /\ at = [x \in Thread |-> "idle"]
  /\ job = "none"
  /\ seen = [x \in Thread |-> Offline]
  /\ failed = FALSE /\ raced = FALSE
  /\ spent = [requests |-> 0, reports |-> 0, drops |-> 0]

-----------------------------------------------------------------------------
Spend(what) == spent' = [spent EXCEPT ![what] = @ + 1]

\* A thread moves on; one that is through forgets its copy and its job
Go(x, place) ==
  /\ at' = [at EXCEPT ![x] = place]
  /\ seen' = IF place \in {"idle", "dead"} THEN [seen EXCEPT ![x] = Offline] ELSE seen
  /\ job' = IF x = Request /\ place = "idle" THEN "none" ELSE job

\* An exception: a request answers with an error, the two other threads end
Raise(x) == Go(x, IF x = Request THEN "idle" ELSE "dead")

\* on_connect publishes, and holds self.lock meanwhile
Announcing == at[Network] \notin {"idle", "dead"}

\* A dead network thread sends nothing, whatever `connected` says
Delivers == link /\ at[Network] # "dead"

\* _publish: it waits for self.lock, and without a connection it does nothing
Publish(x, t, value) ==
  /\ x = Network \/ ~Announcing
  /\ topic' = IF Delivers THEN [topic EXCEPT ![t] = value] ELSE topic

\* Two threads between reading the device and being through with it
Working(x) == at[x] \notin {"idle", "dead", "read", "list"}
Race(x) == raced' = (raced \/ \E y \in Thread \ {x} : Working(y))

-----------------------------------------------------------------------------
(* What starts a thread, and what happens around them *)

\* The state file is written: a report, a connection that begins or ends.  The
\* writers check that the device is enrolled.
Report(s) ==
  /\ device # "none" /\ s # stat
  /\ s.online \/ s.reading = stat.reading
  /\ spent.reports < MaxReports /\ Spend("reports")
  /\ stat' = s
  /\ UNCHANGED <<device, publics, link, at, job, seen, history>>

\* A request of the dashboard: set_link reads the file first, update_names
\* changes it, remove_device lists
AskFor(what) ==
  /\ at[Request] = "idle"
  /\ spent.requests < MaxAsked /\ Spend("requests")
  /\ job' = what
  /\ at' = [at EXCEPT ![Request] = CASE what \in {"link", "unlink"} -> "read"
                 [] what = "rename" -> "write"
                 [] what = "delete" -> "list"]
  /\ UNCHANGED <<device, stat, publics, link, seen, history>>

\* registry.enroll of a device that was deleted
Enroll ==
  /\ device = "none" /\ device' = "unlinked"
  /\ UNCHANGED <<stat, publics, link, at, job, seen, history, spent>>

\* _on_connect of the current client, up to its list_devices()
Connect ==
  /\ ~link /\ at[Network] = "idle"
  /\ link' = TRUE
  /\ lastState' = Nothing
  /\ Go(Network, "list")
  /\ UNCHANGED <<device, stat, topic, lastCaps, history, spent>>

\* The link is lost, or a saved configuration replaces the client and its thread
Disconnect ==
  /\ link /\ ~Announcing
  /\ spent.drops < MaxDrops /\ Spend("drops")
  /\ link' = FALSE
  /\ Go(Network, "idle")
  /\ UNCHANGED <<device, stat, publics, history>>

-----------------------------------------------------------------------------
(* A request's own steps *)

MustRemove == device = "linked" /\ job = "unlink"

\* set_link up to its first publish
ReadDevice ==
  /\ at[Request] = "read"
  /\ IF device = "none" THEN Raise(Request)
     ELSE Go(Request, IF MustRemove THEN "remove" ELSE "write")
  /\ Race(Request)
  /\ UNCHANGED <<device, stat, publics, link, failed, spent>>

\* publish_discovery(remove=True)
RemoveDiscovery ==
  /\ at[Request] = "remove" /\ Publish(Request, "discovery", FALSE)
  /\ Go(Request, "write")
  /\ Race(Request) /\ failed' = ~Delivers
  /\ UNCHANGED <<device, stat, lastCaps, lastState, link, spent>>

SaveOnly == "idle"   \* mutant
AfterLink == "list"

\* set_link's write, update_names, or registry.delete with the state file
WriteDevice ==
  /\ at[Request] = "write"
  /\ \/ /\ job \in {"link", "unlink"}
        /\ device' = IF job = "link" THEN "linked" ELSE "unlinked"
        /\ UNCHANGED stat
        /\ Go(Request, IF job = "link" THEN AfterLink ELSE "idle")
     \/ /\ job = "rename" /\ UNCHANGED <<device, stat>>
        /\ IF device = "none" THEN Raise(Request) ELSE Go(Request, "list")
     \/ /\ job = "delete" /\ device' = "none"
        /\ stat' = IF device = "none" THEN stat ELSE Offline
        /\ Go(Request, "idle")
  /\ UNCHANGED <<publics, link, history, spent>>

-----------------------------------------------------------------------------
(* list_devices, and what a thread does with the device it finds *)

\* The thread has nothing to publish: a delete goes on, a link cannot (next()
\* finds nothing and raises)
Skip(x) == Go(x, IF x = Request /\ job = "delete" THEN "write" ELSE "idle")

First(x) == CASE x = Publisher -> "compare"
              [] x = Request /\ job = "delete" -> "remove"
              [] OTHER -> "discover"

\* glob() names the files and each is read later.  A file that is gone by then,
\* this device's or another's, raises FileNotFoundError, which none of the
\* callers catches.  The publisher begins here when its time.sleep(2) is over.
List(x) ==
  /\ at[x] = "list" \/ (x = Publisher /\ at[x] = "idle")
  /\ \/ /\ device = "linked"
        /\ at' = [at EXCEPT ![x] = First(x)] /\ seen' = [seen EXCEPT ![x] = stat]
        /\ Race(x) /\ UNCHANGED <<job, failed>>
     \/ device # "linked" /\ Skip(x) /\ UNCHANGED history
     \/ Raise(x) /\ failed' = (failed \/ x = Request) /\ UNCHANGED raced
  /\ UNCHANGED <<device, stat, publics, link, spent>>

\* publish_discovery; publish_state calls it again when the readings offer more
\* or less than was announced
Discover(x) ==
  /\ at[x] \in {"discover", "again"} /\ Publish(x, "discovery", TRUE)
  /\ Go(x, IF at[x] = "discover" THEN "compare" ELSE "caps")
  /\ Race(x) /\ failed' = (failed /\ ~(x = Request /\ Delivers))
  /\ UNCHANGED <<device, stat, lastCaps, lastState, link, spent>>

Caps(x) == IF seen[x].reading \in Extended THEN "extended" ELSE "plain"

FirstTime(x) == x # Publisher \/ lastState = Nothing   \* mutant
\* force, or a change since the last time
Needed(x) == x # Publisher \/ lastState # seen[x].reading
AfterCaps(x) == IF Needed(x) THEN "state" ELSE "availability"

\* publish_state up to its first publish
Compare(x) ==
  /\ at[x] = "compare"
  /\ Go(x, IF lastCaps # Caps(x) THEN "again" ELSE AfterCaps(x))
  /\ UNCHANGED <<device, stat, publics, link, history, spent>>

SetCaps(x) ==
  /\ at[x] = "caps"
  /\ lastCaps' = Caps(x)
  /\ Go(x, AfterCaps(x))
  /\ UNCHANGED <<device, stat, topic, lastState, link, history, spent>>

PublishState(x) ==
  /\ at[x] = "state" /\ Publish(x, "state", seen[x].reading)
  /\ Go(x, "remember") /\ Race(x)
  /\ UNCHANGED <<device, stat, lastCaps, lastState, link, failed, spent>>

Remember(x) ==
  /\ at[x] = "remember"
  /\ lastState' = seen[x].reading
  /\ Go(x, "availability") /\ Race(x)
  /\ UNCHANGED <<device, stat, topic, lastCaps, link, failed, spent>>

PublishAvailability(x) ==
  /\ at[x] = "availability"
  /\ Publish(x, "availability", IF seen[x].online THEN "online" ELSE "offline")
  /\ Go(x, "idle") /\ Race(x)
  /\ UNCHANGED <<device, stat, lastCaps, lastState, link, failed, spent>>

-----------------------------------------------------------------------------
Works(x) ==
  \/ List(x) \/ Discover(x) \/ Compare(x)
  \/ SetCaps(x) \/ PublishState(x) \/ Remember(x) \/ PublishAvailability(x)

\* What keeps a thread going
Progress(x) ==
  \/ x = Request /\ (ReadDevice \/ RemoveDiscovery \/ WriteDevice)
  \/ Works(x)

PubNext ==
  \/ \E s \in State : Report(s)
  \/ \E what \in Job : AskFor(what)
  \/ Enroll \/ Connect \/ Disconnect
  \/ \E x \in Thread : Progress(x)

PubSpec == PubInit /\ [][PubNext]_pubVars

-----------------------------------------------------------------------------
(* Properties *)

Quiet == at[Request] = "idle" /\ ~Announcing

\* What Home Assistant is offered follows the link, although requests, callback and
\* publisher overlap at every point and connections come and go between them: when
\* they are through, a linked device has its discovery on the broker of a connected
\* bridge, and one that is unlinked or deleted has none.  The exceptions: a request
\* that list_devices made fail halfway, or that found no connection to withdraw the
\* discovery over (nobody does later); and a removal that another thread undid,
\* publishing from a copy it had read before.
DiscoveryFollowsLink ==
  Quiet /\ ~failed =>
    /\ Delivers /\ device = "linked" => topic.discovery
    /\ device # "linked" /\ ~raced => ~topic.discovery

\* The threads that serve Home Assistant, and its connection, last
Serving == Delivers /\ at[Publisher] # "dead" /\ device = "linked"

\* Availability, and the readings unless two threads were at work at one time
InStep ==
  /\ topic.availability = IF stat.online THEN "online" ELSE "offline"
  /\ raced \/ topic.state = stat.reading

\* Whoever published last, and from however old a copy: once the bridge stays
\* connected and the state file stays as it is, what Home Assistant shows of a
\* linked device is what the file says.  The loop publishes the readings only when
\* they differ from last_states, also across lost connections; when two threads
\* were at work on the device at the same time that can go wrong for good
\* (ha_mqtt.py:308), but not for the availability.
CatchesUp ==
  <>[]Serving => <>[]InStep \/ []<><<stat' # stat>>_pubVars
=============================================================================
