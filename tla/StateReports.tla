---------------------------- MODULE StateReports ----------------------------
(***************************************************************************)
(* The way of a device's state to the dashboard: the threads that read,    *)
(* change and write state/<mac>.json (src/server/mqtt_server.py), the      *)
(* EventBroker and the event streams (src/server/app.py), and the page     *)
(* that fetches the devices (src/web/index.html).                          *)
(*                                                                         *)
(* One device.  A field of its state is the number of the report that last *)
(* set it.  A step is one file access, one region under the broker's       *)
(* condition, or one thing the browser does.                               *)
(***************************************************************************)
EXTENDS Naturals

CONSTANTS
  Field,       \* the switches and readings a report may carry
  Writer,      \* threads that write the state file
  Handler,     \* those that handle a connection: only they have reports
  Page,        \* dashboards, each open in a browser
  Slot,        \* bound: fetches a page has under way
  Nothing,     \* no fetch, an empty page
  Asked,       \* a fetch that is not answered yet
  MaxReports,  \* bound: reports of the device
  MaxMarks,    \* bound: calls of _set_online
  MaxEvents    \* bound: events of a stream the browser has not taken yet

Content == [Field -> 0..MaxReports]

ASSUME ConstantsAssumption ==
  /\ Handler \subseteq Writer /\ Slot # {}
  /\ MaxReports \in Nat /\ MaxMarks \in Nat /\ MaxEvents \in Nat /\ MaxEvents > 0
  /\ Nothing \notin Content /\ Asked \notin Content /\ Nothing # Asked

VARIABLES
  file,      \* state/<mac>.json
  writerPc,  \* where each writer is
  view,      \* the state it has read and changed
  reports,   \* reports and _set_online calls so far
  marks,
  reported,  \* history: the report that last carried each field
  revision,  \* EventBroker.revision
  stream,    \* the thread of send_events that serves a page
  seen,      \* `revision` of send_events
  told,      \* history: the file when the stream was opened or last had an event sent
  events,    \* events in a page's connection
  timer,     \* eventRefreshTimer of a page
  fetch,     \* a page's fetches of /api/devices: none, Asked, or the answer
  shown      \* what the page shows

fileVars   == <<file, writerPc, view, reports, marks, reported>>
brokerVars == <<revision, stream, seen, told>>
pageVars   == <<events, timer, fetch, shown>>
vars       == <<fileVars, brokerVars, pageVars>>

\* Types; and a stream has not seen a revision that is yet to come (EventBroker).
TypeOK ==
  /\ file \in Content /\ reported \in Content /\ view \in [Writer -> Content]
  /\ writerPc \in [Writer -> {"idle", "write", "publish"}]
  /\ reports \in 0..MaxReports /\ marks \in 0..MaxMarks
  /\ revision \in Nat /\ seen \in [Page -> Nat] /\ \A p \in Page : seen[p] <= revision
  /\ stream \in [Page -> {"closed", "check", "asleep", "send"}]
  /\ told \in [Page -> Content]
  /\ events \in [Page -> 0..MaxEvents] /\ timer \in [Page -> BOOLEAN]
  /\ fetch \in [Page -> [Slot -> {Nothing, Asked} \cup Content]]
  /\ shown \in [Page -> {Nothing} \cup Content]

\* The pages are just loaded: neither their stream nor their first fetch is there yet.
Init ==
  /\ file = [f \in Field |-> 0] /\ reported = file /\ view = [w \in Writer |-> file]
  /\ writerPc = [w \in Writer |-> "idle"] /\ reports = 0 /\ marks = 0
  /\ revision = 0 /\ seen = [p \in Page |-> 0] /\ told = [p \in Page |-> file]
  /\ stream = [p \in Page |-> "closed"]
  /\ events = [p \in Page |-> 0] /\ timer = [p \in Page |-> FALSE]
  /\ \E k \in Slot : fetch = [p \in Page |-> [j \in Slot |-> IF j = k THEN Asked ELSE Nothing]]
  /\ shown = [p \in Page |-> Nothing]

-----------------------------------------------------------------------------
(* The state file *)

Goto(w, there) == writerPc' = [writerPc EXCEPT ![w] = there]

\* _status and _events read the state, and merge the fields of the report into it
Report(w, fields) ==
  /\ writerPc[w] = "idle" /\ reports < MaxReports
  /\ reports' = reports + 1
  /\ LET merged(content) == [f \in Field |-> IF f \in fields THEN reports' ELSE content[f]]
     IN  view' = [view EXCEPT ![w] = merged(file)] /\ reported' = merged(reported)
  /\ Goto(w, "write")
  /\ UNCHANGED <<file, marks, brokerVars, pageVars>>

\* _set_online reads the state to change "online" in it
Mark(w) ==
  /\ writerPc[w] = "idle" /\ marks < MaxMarks
  /\ marks' = marks + 1
  /\ view' = [view EXCEPT ![w] = file]
  /\ Goto(w, "write")
  /\ UNCHANGED <<file, reports, reported, brokerVars, pageVars>>

WriteSilently(w) == "idle"   \* mutant
AfterWrite(w) == "publish"

Write(w) ==
  /\ writerPc[w] = "write"
  /\ file' = view[w]
  /\ Goto(w, AfterWrite(w))
  /\ UNCHANGED <<view, reports, marks, reported, brokerVars, pageVars>>

-----------------------------------------------------------------------------
(* EventBroker and send_events *)

NotifyNone == stream   \* mutant
NotifyAll == [p \in Page |-> IF stream[p] = "asleep" THEN "check" ELSE stream[p]]

\* on_change() is EVENTS.publish()
Publish(w) ==
  /\ writerPc[w] = "publish"
  /\ revision' = revision + 1
  /\ stream' = NotifyAll
  /\ Goto(w, "idle")
  /\ UNCHANGED <<file, view, reports, marks, reported, seen, told, pageVars>>

StartLate == revision + 1   \* mutant
Start == revision

\* The browser's request for events arrives: send_events starts with the current revision
Open(p) ==
  /\ stream[p] = "closed"
  /\ stream' = [stream EXCEPT ![p] = "check"]
  /\ seen' = [seen EXCEPT ![p] = Start]
  /\ told' = [told EXCEPT ![p] = file]
  /\ UNCHANGED <<fileVars, revision, pageVars>>

WaitFirst(p) == FALSE   \* mutant
Changed(p) == revision # seen[p]

\* EventBroker.wait tests, and goes to sleep, with the condition's lock held
Check(p) ==
  /\ stream[p] = "check"
  /\ stream' = [stream EXCEPT ![p] = IF Changed(p) THEN "send" ELSE "asleep"]
  /\ seen' = [seen EXCEPT ![p] = IF Changed(p) THEN revision ELSE seen[p]]
  /\ UNCHANGED <<fileVars, revision, told, pageVars>>

\* After 20 s without a notification the thread writes a keepalive and waits again
Keepalive(p) ==
  /\ stream[p] = "asleep"
  /\ stream' = [stream EXCEPT ![p] = IF revision # seen[p] THEN "send" ELSE "check"]
  /\ seen' = [seen EXCEPT ![p] = revision]
  /\ UNCHANGED <<fileVars, revision, told, pageVars>>

Send(p) ==
  /\ stream[p] = "send" /\ events[p] < MaxEvents
  /\ events' = [events EXCEPT ![p] = @ + 1]
  /\ told' = [told EXCEPT ![p] = file]
  /\ stream' = [stream EXCEPT ![p] = "check"]
  /\ UNCHANGED <<fileVars, revision, seen, timer, fetch, shown>>

\* The connection breaks, with what is in it; the thread will find out and return
Break(p) ==
  /\ stream[p] # "closed"
  /\ stream' = [stream EXCEPT ![p] = "closed"]
  /\ events' = [events EXCEPT ![p] = 0]
  /\ UNCHANGED <<fileVars, revision, seen, told, timer, fetch, shown>>

-----------------------------------------------------------------------------
(* The page *)

SetFetch(p, k, what) == fetch' = [fetch EXCEPT ![p][k] = what]

\* clearTimeout, setTimeout(refresh, 50)
Take(p) ==
  /\ events[p] > 0
  /\ events' = [events EXCEPT ![p] = @ - 1]
  /\ timer' = [timer EXCEPT ![p] = TRUE]
  /\ UNCHANGED <<fileVars, brokerVars, fetch, shown>>

TimerFires(p, k) ==
  /\ timer[p] /\ fetch[p][k] = Nothing
  /\ timer' = [timer EXCEPT ![p] = FALSE]
  /\ SetFetch(p, k, Asked)
  /\ UNCHANGED <<fileVars, brokerVars, events, shown>>

OnlyWithoutStream(p) == stream[p] = "closed"   \* mutant
Due(p) == TRUE

\* setInterval(refresh, 30000), or the refresh that follows a command
Refresh(p, k) ==
  /\ Due(p) /\ fetch[p][k] = Nothing
  /\ SetFetch(p, k, Asked)
  /\ UNCHANGED <<fileVars, brokerVars, events, timer, shown>>

\* list_devices reads the file for the answer
Answer(p, k) ==
  /\ fetch[p][k] = Asked
  /\ SetFetch(p, k, file)
  /\ UNCHANGED <<fileVars, brokerVars, events, timer, shown>>

\* Answers are shown in the order they arrive in, whichever was asked first
Show(p, k) ==
  /\ fetch[p][k] \in Content
  /\ shown' = [shown EXCEPT ![p] = fetch[p][k]]
  /\ SetFetch(p, k, Nothing)
  /\ UNCHANGED <<fileVars, brokerVars, events, timer>>

\* fetch() throws, and refresh() catches
Fail(p, k) ==
  /\ fetch[p][k] # Nothing
  /\ SetFetch(p, k, Nothing)
  /\ UNCHANGED <<fileVars, brokerVars, events, timer, shown>>

-----------------------------------------------------------------------------
WriterStep(w) == Write(w) \/ Publish(w)
StreamStep(p) == Check(p) \/ Send(p)
PageStep(p) ==
  \/ Take(p)
  \/ \E k \in Slot : TimerFires(p, k) \/ Refresh(p, k) \/ Answer(p, k) \/ Show(p, k) \/ Fail(p, k)

Next ==
  \/ \E w \in Handler, fields \in SUBSET Field \ {{}} : Report(w, fields)
  \/ \E w \in Writer : Mark(w) \/ WriterStep(w)
  \/ \E p \in Page : Open(p) \/ StreamStep(p) \/ Keepalive(p) \/ Break(p) \/ PageStep(p)

Spec == Init /\ [][Next]_vars

\* Threads go on, the browser takes events, and fetches again and again, of which not
\* all fail; the 20 s timeout is not counted on, the stream may stay broken.
Fairness ==
  /\ \A w \in Writer : WF_vars(WriterStep(w))
  /\ \A p \in Page :
       /\ WF_vars(StreamStep(p)) /\ WF_vars(Take(p))
       /\ \A k \in Slot : WF_vars(Refresh(p, k)) /\ SF_vars(Answer(p, k)) /\ SF_vars(Show(p, k))

FairSpec == Spec /\ Fairness

-----------------------------------------------------------------------------
(* Properties *)

\* Every change that a stream has not told its page of is on its way to it: its writer
\* is about to publish it, the revision has moved on, or the event is about to be sent
\* (the order of write and on_change, EventBroker, send_events).
ChangesAreOnTheirWay ==
  \A p \in Page : stream[p] # "closed" /\ told[p] # file =>
    \/ \E w \in Writer : writerPc[w] = "publish"
    \/ seen[p] # revision
    \/ stream[p] = "send"

\* A stream sleeps only when it has seen the last revision: no wake-up is lost between
\* its test and its sleep (EventBroker.wait, publish).
NoWakeUpIsLost == \A p \in Page : stream[p] = "asleep" => seen[p] = revision

\* A page is told of every change, or its stream breaks, without the help of the 20 s
\* timeout (EventBroker, send_events).
ChangesAreTold ==
  \A p \in Page : stream[p] # "closed" /\ told[p] # file ~> stream[p] = "closed" \/ told[p] = file

\* When the file no longer changes, every page shows it in the end, in spite of broken
\* streams, failed fetches and answers that overtake each other (refresh, setInterval).
PagesCatchUp == \A p \in Page : <>[](shown[p] = file)

\* When nobody is writing, the file holds what the device reported last.  What
\* README_EN.md:405 promises of state changes; see the run's finding.
ReportsAreKept == (\A w \in Writer : writerPc[w] # "write") => file = reported
=============================================================================
