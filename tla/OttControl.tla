------------------------------ MODULE OttControl ------------------------------
(***************************************************************************)
(* What an OTT UE plays: the portal's record of the UE                     *)
(* (src/applications/servers/ott/backend/state.py, api.py) and the UE's    *)
(* backend (src/applications/clients/ott/backend/backend.py) with its      *)
(* heartbeat, its playback watchdog, its autostart and the requests of its *)
(* console.  The UE reports its state with each heartbeat, the portal      *)
(* stores the report and answers with what it then has on record, and the  *)
(* UE applies the answer.                                                  *)
(*                                                                         *)
(* One UE; requests name videos of the catalogue; the UE's tunnel is up    *)
(* and its watchdog on.  A video stands for its id and its YouTube id,     *)
(* which both sides write together; the watchdog, which plays a video      *)
(* anew if it does not know the latter, always knows it.                   *)
(***************************************************************************)
EXTENDS Integers, SequencesExt

CONSTANTS
    Videos,     \* the catalogue
    Default,    \* the video a UE is given when it has none
    Blank,      \* no video
    MaxJobs,    \* bound: requests to the portal and to the console, and
                \* videos played by the autostart
    MaxOutages  \* bound: restarts of the portal and of the UE's backend

VARIABLES
    entry,      \* the portal's record: state ("none": no record) and video
    client,     \* streaming_enabled, selected_video_id, autostart done
    page,       \* what Chromium shows
    beat,       \* the heartbeat: its place, what it has read, last_cmd_state = STOPPED
    watch,      \* the watchdog: its place and the video it expects
    jobs,       \* the requests under way, with the steps they have left
    made,       \* jobs and restarts so far
    order       \* ghost: the latest order given to the UE

ottVars == <<entry, client, page, beat, watch, jobs, made, order>>

Program ==
    [play    |-> <<"select", "navigate", "adopt">>,
     enable  |-> <<"on", "tell start">>,
     disable |-> <<"off", "blank", "tell stop">>,
     start   |-> <<"tell start">>,
     stop    |-> <<"portal stop">>,
     channel |-> <<"assign">>]

(* Portal requests are one step at the portal; a console request tells the *)
(* portal in passing, and goes on when that fails.                         *)
At(j, step) == Head(jobs[j].left) = step

JobOver(j) == jobs' = RemoveAt(jobs, j)

Continue(j) ==
    IF Len(jobs[j].left) = 1 THEN JobOver(j)
    ELSE jobs' = [jobs EXCEPT ![j].left = Tail(@)]

NewJob(kind, v, auto) ==
    /\ made.jobs < MaxJobs
    /\ made' = [made EXCEPT !.jobs = @ + 1]
    /\ jobs' = Append(jobs, [kind |-> kind, video |-> v, auto |-> auto,
                             left |-> Program[kind]])

Outage ==
    /\ made.outages < MaxOutages
    /\ made' = [made EXCEPT !.outages = @ + 1]

Known == entry.state # "none"

Idle == [pc |-> "idle", state |-> "none", video |-> Blank, last |-> FALSE]

Back(last) == [Idle EXCEPT !.last = last]

Off == [on |-> FALSE, video |-> Blank, started |-> FALSE]

Asleep == [pc |-> "idle", video |-> Blank]

-----------------------------------------------------------------------------
OttInit ==
    /\ entry = [state |-> "none", video |-> Blank]
    /\ client = Off
    /\ page = Blank
    /\ beat = Idle
    /\ watch = Asleep
    /\ jobs = <<>>
    /\ made = [jobs |-> 0, outages |-> 0]
    /\ order = "none"

Request(kind, v) ==
    /\ NewJob(kind, v, FALSE)
    /\ UNCHANGED <<entry, client, page, beat, watch, order>>

-----------------------------------------------------------------------------
(* The portal's side of the requests.                                      *)

(* set_client_state: a UE without a record is an error of the request.     *)
Tell(j, step, state, o) ==
    /\ At(j, step) /\ Continue(j)
    /\ entry' = IF Known THEN [entry EXCEPT !.state = state] ELSE entry
    /\ order' = IF Known THEN o ELSE order
    /\ UNCHANGED <<client, page, beat, watch, made>>

TellStart(j) == Tell(j, "tell start", "STREAMING", "start")
TellStop(j) == Tell(j, "tell stop", "STOPPED", order)
PortalStop(j) == Tell(j, "portal stop", "STOPPED", "portal stop")

(* A call of the console to the portal that fails.                         *)
TellFails(j) ==
    /\ At(j, "tell start") \/ At(j, "tell stop")
    /\ jobs[j].kind \in {"enable", "disable"}
    /\ Continue(j)
    /\ UNCHANGED <<entry, client, page, beat, watch, made, order>>

(* set_client_channel *)
Assign(j) ==
    /\ At(j, "assign") /\ Continue(j)
    /\ IF Known
       THEN /\ entry' = [state |-> "STREAMING", video |-> jobs[j].video]
            /\ order' = "start"
       ELSE UNCHANGED <<entry, order>>
    /\ UNCHANGED <<client, page, beat, watch, made>>

(* select_video_for_client makes the record if there is none.              *)
Select(j) ==
    /\ At(j, "select") /\ Continue(j)
    /\ entry' = [state |-> "STREAMING", video |-> jobs[j].video]
    /\ order' = "start"
    /\ UNCHANGED <<client, page, beat, watch, made>>

-----------------------------------------------------------------------------
(* The console's side: _play_chromium, enable_streaming, disable_streaming. *)
Navigate(j) ==
    /\ At(j, "navigate") /\ Continue(j)
    /\ page' = jobs[j].video
    /\ UNCHANGED <<entry, client, beat, watch, made, order>>

Adopt(j) ==
    /\ At(j, "adopt") /\ Continue(j)
    /\ client' = [client EXCEPT !.on = TRUE, !.video = jobs[j].video]
    /\ order' = "start"
    /\ UNCHANGED <<entry, page, beat, watch, made>>

(* The portal does not answer, or Chromium does not: the request ends, and *)
(* the autostart tries again.                                              *)
PlayFails(j) ==
    /\ At(j, "select") \/ At(j, "navigate")
    /\ IF jobs[j].auto THEN jobs' = [jobs EXCEPT ![j].left = Program.play]
       ELSE JobOver(j)
    /\ UNCHANGED <<entry, client, page, beat, watch, made, order>>

(* Refused without a video.                                                *)
TurnOn(j) ==
    /\ At(j, "on")
    /\ IF client.video = Blank
       THEN /\ JobOver(j)
            /\ UNCHANGED <<client, order>>
       ELSE /\ Continue(j)
            /\ client' = [client EXCEPT !.on = TRUE]
            /\ order' = "start"
    /\ UNCHANGED <<entry, page, beat, watch, made>>

(* The ghost takes note of stops that no round of the UE's threads is      *)
(* under way at.                                                           *)
TurnOff(j) ==
    /\ At(j, "off") /\ Continue(j)
    /\ client' = [client EXCEPT !.on = FALSE]
    /\ order' = IF beat.pc = "idle" /\ watch.pc = "idle"
                THEN "console stop" ELSE "none"
    /\ UNCHANGED <<entry, page, beat, watch, made>>

(* Blanking Chromium may fail.                                             *)
BlankPage(j) ==
    /\ At(j, "blank") /\ Continue(j)
    /\ page' \in {page, Blank}
    /\ UNCHANGED <<entry, client, beat, watch, made, order>>

(* The autostart, once: a page that Chromium already shows is taken over,  *)
(* and otherwise a video is played.                                        *)
Autostart ==
    /\ ~client.started
    /\ IF page # Blank
       THEN /\ client' = [client EXCEPT !.on = TRUE, !.started = TRUE]
            /\ order' = "start"
            /\ UNCHANGED <<jobs, made>>
       ELSE /\ NewJob("play", IF client.video = Blank THEN Default
                              ELSE client.video, TRUE)
            /\ client' = [client EXCEPT !.started = TRUE]
            /\ UNCHANGED order
    /\ UNCHANGED <<entry, page, beat, watch>>

-----------------------------------------------------------------------------
(* _heartbeat_loop and client_heartbeat.                                   *)
BeatSend ==
    /\ beat.pc = "idle"
    /\ beat' = [beat EXCEPT !.pc = "sent",
                            !.state = IF client.on THEN "STREAMING" ELSE "IDLE"]
    /\ UNCHANGED <<entry, client, page, watch, jobs, made, order>>

(* Mutant: the report is for a new record only.                            *)
BeatUpdate_KeepsState ==
    /\ beat.pc = "sent"
    /\ beat' = [beat EXCEPT !.pc = "updated", !.state = "none"]
    /\ entry' = [state |-> IF Known THEN entry.state ELSE beat.state,
                 video |-> IF entry.video = Blank THEN Default ELSE entry.video]
    /\ UNCHANGED <<client, page, watch, jobs, made, order>>

(* update_client_heartbeat: the report replaces the state on record, and a *)
(* UE without a video is given one.                                        *)
BeatUpdate ==
    /\ beat.pc = "sent"
    /\ beat' = [beat EXCEPT !.pc = "updated", !.state = "none"]
    /\ entry' = [state |-> beat.state,
                 video |-> IF entry.video = Blank THEN Default ELSE entry.video]
    /\ UNCHANGED <<client, page, watch, jobs, made, order>>

(* The answer is made from the record after its lock is released.          *)
BeatAnswer ==
    /\ beat.pc = "updated"
    /\ beat' = [beat EXCEPT !.pc = "answered",
                            !.state = entry.state, !.video = entry.video]
    /\ UNCHANGED <<entry, client, page, watch, jobs, made, order>>

(* Mutant: the video of the answer is for a UE that has none.              *)
BeatApply_KeepsVideo ==
    /\ beat.pc = "answered"
    /\ beat' = Back(beat.state = "STOPPED")
    /\ client' =
          [client EXCEPT
             !.video = IF client.video = Blank THEN beat.video ELSE client.video,
             !.on = CASE beat.state = "STREAMING" -> TRUE
                      [] beat.state = "STOPPED" -> client.on /\ beat.last
                      [] OTHER -> client.on]
    /\ UNCHANGED <<entry, page, watch, jobs, made, order>>

(* The video always, and the switch: off at the first STOPPED in a row.    *)
BeatApply ==
    /\ beat.pc = "answered"
    /\ beat' = Back(beat.state = "STOPPED")
    /\ client' =
          [client EXCEPT
             !.video = beat.video,
             !.on = CASE beat.state = "STREAMING" -> TRUE
                      [] beat.state = "STOPPED" -> client.on /\ beat.last
                      [] OTHER -> client.on]
    /\ UNCHANGED <<entry, page, watch, jobs, made, order>>

BeatFails ==
    /\ beat.pc \in {"sent", "updated"}
    /\ beat' = Back(beat.last)
    /\ UNCHANGED <<entry, client, page, watch, jobs, made, order>>

-----------------------------------------------------------------------------
(* _playback_watchdog_loop: what it does to the page needs several bad     *)
(* ticks and a pause since the last time, and may fail.  Once off it       *)
(* leaves a YouTube page alone.                                            *)
WatchRead ==
    /\ watch.pc = "idle"
    /\ client.on /\ client.video # Blank
    /\ watch' = [pc |-> "check", video |-> client.video]
    /\ UNCHANGED <<entry, client, page, beat, jobs, made, order>>

WatchOK ==
    /\ watch.pc = "check"
    /\ watch' = Asleep
    /\ UNCHANGED <<entry, client, page, beat, jobs, made, order>>

WatchReload ==
    /\ watch.pc = "check" /\ page # watch.video
    /\ page' = watch.video
    /\ client' = [client EXCEPT !.on = TRUE]
    /\ watch' = Asleep
    /\ UNCHANGED <<entry, beat, jobs, made, order>>

-----------------------------------------------------------------------------
(* The portal forgets the UE: a restart, or list_clients after 60 s        *)
(* without a heartbeat.                                                    *)
PortalForgets ==
    /\ Known /\ Outage
    /\ entry' = [state |-> "none", video |-> Blank]
    /\ beat' = IF beat.pc = "updated" THEN Back(beat.last) ELSE beat
    /\ UNCHANGED <<client, page, watch, jobs, order>>

(* The UE's backend restarts and Chromium does not.                        *)
ClientRestarts ==
    /\ Outage
    /\ client' = Off /\ beat' = Idle /\ watch' = Asleep
    /\ jobs' = SelectSeq(jobs, LAMBDA job : job.kind \in {"start", "stop", "channel"})
    /\ order' = "none"
    /\ UNCHANGED <<entry, page>>

Handle(j) ==
    \/ TellStart(j) \/ TellStop(j) \/ PortalStop(j) \/ TellFails(j)
    \/ Assign(j) \/ Select(j) \/ Navigate(j) \/ Adopt(j) \/ PlayFails(j)
    \/ TurnOn(j) \/ TurnOff(j) \/ BlankPage(j)

OttNext ==
    \/ \E kind \in {"play", "channel"}, v \in Videos : Request(kind, v)
    \/ \E kind \in {"enable", "disable", "start", "stop"} : Request(kind, Blank)
    \/ \E j \in DOMAIN jobs : Handle(j)
    \/ Autostart
    \/ BeatSend \/ BeatUpdate \/ BeatAnswer \/ BeatApply \/ BeatFails
    \/ WatchRead \/ WatchOK \/ WatchReload
    \/ PortalForgets \/ ClientRestarts

(* The threads of the UE go round, and heartbeats and reloads that are     *)
(* tried again and again succeed now and then, whatever becomes of the     *)
(* requests.                                                               *)
OttFairness ==
    /\ WF_ottVars(BeatSend \/ BeatApply)
    /\ SF_ottVars(BeatUpdate) /\ SF_ottVars(BeatAnswer)
    /\ WF_ottVars(WatchRead \/ WatchOK) /\ SF_ottVars(WatchReload)

OttSpec == OttInit /\ [][OttNext]_ottVars /\ OttFairness

-----------------------------------------------------------------------------
(* A stop at the console stands until something starts the UE again, also  *)
(* when the portal did not hear of it and has the UE streaming on record;  *)
(* unless a heartbeat or a round of the watchdog, which have read that the *)
(* UE streams, was under way: these turn it on again.                      *)
ConsoleStopStands == order = "console stop" => ~client.on

(* A UE that streams comes to show the video on record at the portal,      *)
(* whether the console or the portal chose it and however the two crossed. *)
ShowsAssignedVideo ==
    []<>(~client.on \/ ~Known \/ page = entry.video)

(* "Command a specific UE client to stop receiving video downlink." and    *)
(* "apply portal Start/Stop/channel to Chromium": a stop at the portal     *)
(* reaches the UE, unless it is started again.                             *)
PortalStopTakesEffect ==
    []<>(order # "portal stop" \/ ~client.on)
=============================================================================
