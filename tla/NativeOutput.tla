---------------------------- MODULE NativeOutput ----------------------------
(***************************************************************************)
(* The output of the desktop on macOS and Windows (output.rs) and the      *)
(* format the virtual camera has (frame_receiver.cpp, IPCReceiver.swift).  *)
(* The camera's format is chosen by the program that uses the camera.  The *)
(* camera tells the desktop of it in format events, on the connection the  *)
(* pictures take the other way; each commit consumes one event, the oldest,*)
(* and accepts it if it names the profile it was asked for.                *)
(*                                                                         *)
(* On macOS a commit waits a second for an event and events queue in a     *)
(* socket.  On Windows it waits in a read without a timeout, and the camera*)
(* writes into a pipe of one event, without waiting for room.              *)
(***************************************************************************)
EXTENDS Naturals, Sequences, NativeDriver

CONSTANTS Formats,         \* width, height and frame rate
          Room,            \* events the connection holds
          SelectLimit,     \* bound on the selections of the using program
          CommitLimit,     \* bound on the commits of the desktop
          NoFormat

ASSUME BoundAssumption ==
  {Room, SelectLimit, CommitLimit} \subseteq Nat /\ Room # 0 /\ NoFormat \notin Formats

VARIABLES selected,    \* the camera's format, latest_format_event_
          selections,  \* selections made
          link,        \* "none", "connecting", "up" or "down"
          events,      \* events not yet read
          known,       \* history: formats published on this connection
          lost,        \* history: an event found no room
          requested,   \* profile of the commit that is under way
          commits,     \* commits begun
          committed,   \* committed_profile
          outcome      \* "none", "waiting", "ok", "failed"

cameraVars == <<platform, selected, selections>>
desktopVars == <<requested, commits, committed, outcome>>
vars == <<cameraVars, link, events, known, lost, desktopVars>>

ReadTimesOut == platform = "macos"

\* On macOS a full socket closes the client.
FullLosesEvent == platform = "windows"

MaybeFormat == Formats \cup {NoFormat}

TypeOK ==
  /\ platform \in Platforms
  /\ {selected, requested, committed} \subseteq MaybeFormat
  /\ selections \in 0 .. SelectLimit /\ commits \in 0 .. CommitLimit
  /\ link \in {"none", "connecting", "up", "down"}
  /\ events \in Seq(Formats) /\ Len(events) <= Room
  /\ known \subseteq Formats /\ lost \in BOOLEAN
  /\ outcome \in {"none", "waiting", "ok", "failed"}

Init ==
  /\ platform \in Platforms
  /\ selected = NoFormat /\ selections = 0
  /\ link = "none" /\ events = <<>> /\ known = {} /\ lost = FALSE
  /\ requested = NoFormat /\ commits = 0 /\ committed = NoFormat /\ outcome = "none"

-----------------------------------------------------------------------------
(* The camera *)

\* An event on the connection.  The size of the Windows pipe, one event, is
\* advisory: an event behind an unread one may find room or not.
Send(f) ==
  \/ /\ Len(events) < Room
     /\ events' = Append(events, f)
     /\ UNCHANGED <<link, lost>>
  \/ /\ FullLosesEvent /\ events # <<>>
     /\ lost' = TRUE
     /\ UNCHANGED <<link, events>>
  \/ /\ ~FullLosesEvent /\ Len(events) = Room
     /\ lost' = TRUE /\ link' = "down"
     /\ UNCHANGED events

\* publishFormat, PublishFormat: the program picks a format, another or the
\* same one, and a desktop that is connected is told.
Select(f) ==
  /\ selections < SelectLimit
  /\ selections' = selections + 1
  /\ selected' = f
  /\ IF link = "up"
     THEN Send(f) /\ known' = known \cup {f}
     ELSE UNCHANGED <<link, events, lost, known>>
  /\ UNCHANGED <<platform, desktopVars>>

\* The camera takes the connection and tells the format it has.
Accept ==
  /\ link = "connecting"
  /\ link' = "up"
  /\ IF selected = NoFormat
     THEN UNCHANGED <<events, known>>
     ELSE events' = <<selected>> /\ known' = {selected}
  /\ UNCHANGED <<cameraVars, lost, desktopVars>>

\* The camera, or the program it runs in, goes away.
CameraGoes ==
  /\ link \in {"connecting", "up"}
  /\ link' = "down"
  /\ UNCHANGED <<cameraVars, events, known, lost, desktopVars>>

-----------------------------------------------------------------------------
(* The desktop *)

\* OutputDevice::open
Open ==
  /\ link = "none"
  /\ link' = "connecting"
  /\ UNCHANGED <<cameraVars, events, known, lost, desktopVars>>

\* commit of a profile, which preflight lets pass, up to the read.
Commit(f) ==
  /\ link # "none" /\ outcome # "waiting"
  /\ commits < CommitLimit
  /\ commits' = commits + 1
  /\ requested' = f /\ outcome' = "waiting"
  /\ UNCHANGED <<cameraVars, link, events, known, lost, committed>>

\* Mutant: whatever the event says, the profile is committed.
ReadEventUnchecked ==
  /\ outcome = "waiting" /\ events # <<>>
  /\ events' = Tail(events)
  /\ committed' = requested /\ outcome' = "ok"
  /\ UNCHANGED <<cameraVars, link, known, lost, requested, commits>>

\* The event is gone, also when it names another format.
ReadEvent ==
  /\ outcome = "waiting" /\ events # <<>>
  /\ events' = Tail(events)
  /\ IF Head(events) = requested
     THEN committed' = requested /\ outcome' = "ok"
     ELSE outcome' = "failed" /\ UNCHANGED committed
  /\ UNCHANGED <<cameraVars, link, known, lost, requested, commits>>

\* Mutant: the read has no timeout.
ReadFailsAtEnd ==
  /\ outcome = "waiting" /\ events = <<>>
  /\ link = "down"
  /\ outcome' = "failed"
  /\ UNCHANGED <<cameraVars, link, events, known, lost, requested, commits, committed>>

\* The second is over, or the connection ends without another event.
ReadFails ==
  /\ outcome = "waiting" /\ events = <<>>
  /\ ReadTimesOut \/ link = "down"
  /\ outcome' = "failed"
  /\ UNCHANGED <<cameraVars, link, events, known, lost, requested, commits, committed>>

-----------------------------------------------------------------------------

Next ==
  \/ \E f \in Formats : Select(f) \/ Commit(f)
  \/ Accept \/ CameraGoes \/ Open \/ ReadEvent \/ ReadFails

Spec == Init /\ [][Next]_vars

\* The camera's receiver runs, and so does a read of the desktop that has
\* something to return.  Nothing is assumed of the program using the camera.
Fairness == WF_vars(Accept) /\ WF_vars(ReadEvent) /\ WF_vars(ReadFails)

FairSpec == Spec /\ Fairness

-----------------------------------------------------------------------------

CommittedWasSelected == committed # NoFormat => committed \in known

CaughtUp ==
  outcome = "ok" /\ events = <<>> /\ ~lost /\ link = "up" => committed = selected

NewestIsSelected ==
  link = "up" /\ events # <<>> /\ ~lost => events[Len(events)] = selected

\* Events are late, never wrong.  A committed profile is one the camera had
\* while this desktop was connected; with every event read and none lost a
\* commit that succeeded agrees with the camera; and the newest event that
\* waits is its format, so a desktop that goes on committing finds it.
CommitsCatchUp == TypeOK /\ CommittedWasSelected /\ CaughtUp /\ NewestIsSelected

\* A commit returns; on Windows, when there is an event or no camera.
CommitReturns ==
  (outcome = "waiting" /\ (ReadTimesOut \/ events # <<>> \/ link = "down"))
    ~> (outcome # "waiting")
=============================================================================
