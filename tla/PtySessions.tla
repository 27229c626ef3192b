----------------------------- MODULE PtySessions ----------------------------
(***************************************************************************)
(* The interactive shell of one sandbox session                            *)
(* (app/src/lib/sandbox/pty-manager.server.ts) and the streams that watch  *)
(* it (app/src/routes/api/sandbox/pty/stream.ts).                          *)
(*                                                                         *)
(* A shell holds the session's attachment from its start to its disposal.  *)
(* It ends when bash exits or when it has had no subscriber for            *)
(* IDLE_CLOSE_MS.  A stream is not closed when its shell ends: its client  *)
(* may disconnect much later, when another shell has taken the session.    *)
(***************************************************************************)
EXTENDS Integers, FiniteSets

CONSTANTS
  Clients,      (* stream requests that may be open at once                 *)
  MaxShells,    (* bound: calls of pty.spawn, those that throw included      *)
  None          (* no shell                                                 *)

Shells == 1..MaxShells
LiveShell == [shell : Shells, subscribers : SUBSET Clients, timer : {"none", "set", "fired"}]

ASSUME PtyAssumption == MaxShells \in Nat /\ None \notin Nat /\ None \notin LiveShell

VARIABLES
  session,   (* the live shell with its subscribers and idle timer, or None *)
  starting,  (* the start under way: no, acquiring, or hydrating            *)
  client,    (* each stream: idle, waiting, aborted while waiting, open or
                abandoned, and on which shell                               *)
  exited,    (* shells whose process is over and whose exit event is to come *)
  holds,     (* references held on the session's attachment                 *)
  spawned,   (* how many times bash has been spawned                        *)
  failed     (* how many times the spawn has thrown                         *)

ptyVars == <<session, starting, client, exited, holds, spawned, failed>>

StartAt(p, s) == [pc |-> p, shell |-> s]

PtyInit ==
  /\ session = None
  /\ starting = "no"
  /\ client = [c \in Clients |-> StartAt("idle", None)]
  /\ exited = {}
  /\ holds = 0
  /\ spawned = 0 /\ failed = 0

-----------------------------------------------------------------------------
(* A stream request: the shell exists and is subscribed to at once, which   *)
(* clears the idle timer; or the start under way is shared; or one begins.  *)
Subscribed(c) ==
  /\ session' = [session EXCEPT !.subscribers = @ \cup {c}, !.timer = "none"]
  /\ client' = [client EXCEPT ![c] = StartAt("open", session.shell)]

Connect(c) ==
  /\ client[c].pc = "idle"
  /\ \/ session # None /\ Subscribed(c) /\ UNCHANGED starting
     \/ /\ session = None
        /\ starting # "no" \/ spawned + failed < MaxShells
        /\ starting' = IF starting = "no" THEN "acquiring" ELSE starting
        /\ client' = [client EXCEPT ![c] = StartAt("waiting", None)]
        /\ UNCHANGED session
  /\ UNCHANGED <<exited, holds, spawned, failed>>

(* start: the attachment is acquired, /work/in is hydrated, bash is spawned. *)
Acquired ==
  /\ starting = "acquiring"
  /\ starting' = "hydrating"
  /\ holds' = holds + 1
  /\ UNCHANGED <<session, client, exited, spawned, failed>>

Waiting == {c \in Clients : client[c].pc \in {"waiting", "aborted"}}

(* Every stream that waits for the start subscribes when it is done.  One   *)
(* whose client has gone by then listens for an abort that already was.     *)
Spawn ==
  /\ starting = "hydrating"
  /\ spawned' = spawned + 1
  /\ starting' = "no"
  /\ session' = [shell |-> spawned', subscribers |-> Waiting, timer |-> "none"]
  /\ client' = [c \in Clients |->
       CASE client[c].pc = "waiting" -> StartAt("open", spawned')
         [] client[c].pc = "aborted" -> StartAt("abandoned", spawned')
         [] OTHER -> client[c]]
  /\ UNCHANGED <<exited, holds, failed>>

(* The acquire rejects, or the spawn throws: every waiting request fails.   *)
(* Nobody gives back what a failed spawn holds.                             *)
StartFails ==
  /\ \/ starting = "acquiring" /\ UNCHANGED failed
     \/ starting = "hydrating" /\ failed' = failed + 1
  /\ starting' = "no"
  /\ client' = [c \in Clients |-> IF c \in Waiting THEN StartAt("idle", None) ELSE client[c]]
  /\ UNCHANGED <<session, exited, holds, spawned>>

-----------------------------------------------------------------------------
UnsubscribedOnly(c) ==   (* mutant: the last one out sets no timer *)
  session' = IF session # None /\ session.shell = client[c].shell
             THEN [session EXCEPT !.subscribers = @ \ {c}] ELSE session

(* unsubscribe, with the shell it was subscribed to.  The timer is set on   *)
(* the session's present shell when the old subscriber set is empty, which  *)
(* that of a disposed shell always is.                                      *)
Unsubscribed(c) ==
  LET ours == session # None /\ session.shell = client[c].shell
      left == IF ours THEN session.subscribers \ {c} ELSE {}
  IN session' = IF session = None THEN None
                ELSE [session EXCEPT
                        !.subscribers = IF ours THEN left ELSE @,
                        !.timer = IF left = {} /\ @ = "none" THEN "set" ELSE @]

Disconnect(c) ==
  /\ \/ /\ client[c].pc = "open"
        /\ Unsubscribed(c)
        /\ client' = [client EXCEPT ![c] = StartAt("idle", None)]
     \/ /\ client[c].pc = "waiting"
        /\ client' = [client EXCEPT ![c].pc = "aborted"]
        /\ UNCHANGED session
  /\ UNCHANGED <<starting, exited, holds, spawned, failed>>

DisposeHolds(pending) ==   (* mutant: the hold is not released *)
  /\ session' = None
  /\ exited' = pending
  /\ client' = [c \in Clients |-> IF client[c] = StartAt("abandoned", session.shell)
                                  THEN StartAt("idle", None) ELSE client[c]]
  /\ UNCHANGED holds

DisposeReleasesTwice(pending) ==   (* mutant: it is released twice *)
  /\ session' = None
  /\ exited' = pending
  /\ holds' = holds - 2
  /\ UNCHANGED client

(* dispose: the shell leaves the map, its subscribers are dropped, its      *)
(* process is killed and its hold is released.  Exit events are then        *)
(* pending of the shells in pending: its own follows, if it has not come.   *)
Dispose(pending) ==
  /\ session' = None
  /\ exited' = pending
  /\ holds' = holds - 1
  /\ client' = [c \in Clients |-> IF client[c] = StartAt("abandoned", session.shell)
                                  THEN StartAt("idle", None) ELSE client[c]]

IdleFiresBlindly ==   (* mutant: it does not look again *)
  /\ session # None
  /\ session.timer = "set"
  /\ Dispose(exited \cup {session.shell})
  /\ UNCHANGED <<starting, spawned, failed>>

(* The timer fires: it looks for subscribers again, and stays set in the    *)
(* session's record if it finds any.                                        *)
IdleFires ==
  /\ session # None
  /\ session.timer = "set"
  /\ IF session.subscribers = {}
     THEN Dispose(exited \cup {session.shell})
     ELSE session' = [session EXCEPT !.timer = "fired"] /\ UNCHANGED <<client, exited, holds>>
  /\ UNCHANGED <<starting, spawned, failed>>

(* bash exits by itself; its exit event comes later. *)
ShellExits ==
  /\ session # None
  /\ session.shell \notin exited
  /\ exited' = exited \cup {session.shell}
  /\ UNCHANGED <<session, starting, client, holds, spawned, failed>>

(* The exit event of a shell disposes whatever shell the session has now.   *)
ExitEvent(s) ==
  /\ s \in exited
  /\ \/ /\ session # None /\ session.shell = s
        /\ Dispose(exited \ {s})
     \/ /\ session # None /\ session.shell # s
        /\ Dispose((exited \ {s}) \cup {session.shell})
     \/ /\ session = None
        /\ exited' = exited \ {s} /\ UNCHANGED <<session, client, holds>>
  /\ UNCHANGED <<starting, spawned, failed>>

PtyNext ==
  \/ \E c \in Clients : Connect(c) \/ Disconnect(c)
  \/ Acquired \/ Spawn \/ StartFails \/ IdleFires \/ ShellExits
  \/ \E s \in Shells : ExitEvent(s)

(* Timers fire, exit events arrive, and a start settles.  Clients come and  *)
(* go as they please.                                                       *)
PtyFairness ==
  /\ WF_ptyVars(IdleFires) /\ WF_ptyVars(Acquired \/ Spawn \/ StartFails)
  /\ \A s \in Shells : WF_ptyVars(ExitEvent(s))

PtySpec == PtyInit /\ [][PtyNext]_ptyVars /\ PtyFairness

-----------------------------------------------------------------------------
PtyTypeOK ==
  /\ session = None \/ session \in LiveShell
  /\ starting \in {"no", "acquiring", "hydrating"}
  /\ client \in [Clients -> [pc : {"idle", "waiting", "aborted", "open", "abandoned"},
                             shell : Shells \cup {None}]]
  /\ exited \subseteq Shells
  /\ holds \in 0..(MaxShells + 1) /\ spawned \in 0..MaxShells /\ failed \in 0..MaxShells

(* The attachment is held once by the live shell, once by a start that has  *)
(* acquired it, and once by every start whose spawn threw: released too     *)
(* often, the sandbox is swept from under an open terminal; too rarely, it  *)
(* is never swept, which a failed spawn does bring about.                   *)
HoldsExact ==
  PtyTypeOK /\ holds = (IF session # None THEN 1 ELSE 0) + (IF starting = "hydrating" THEN 1 ELSE 0) + failed

(* The idle close never takes a shell somebody watches: a watched shell     *)
(* goes only in a step that delivers an exit event.                         *)
Watched == session # None /\ \E c \in Clients : client[c] = StartAt("open", session.shell)

IdleCloseSparesWatched ==
  [][(Watched /\ session' = None) => ~(exited \subseteq exited')]_ptyVars

(* "the PTY lives until the bash process exits, or IDLE_CLOSE_MS passes     *)
(* with zero subscribers": a shell nobody watches does not stay.  Stated of *)
(* the first shell and without clients that were gone before it started:    *)
(* those subscribe for ever, and the streams of an earlier shell use up the *)
(* idle timer of a later one.                                               *)
Undisturbed == session.shell = 1 /\ \A c \in Clients : client[c].pc # "abandoned"
Unwatched   == session # None /\ ~Watched
IdleCloses  == (Unwatched /\ Undisturbed) ~> ~Unwatched

(* Both halves of the rule: the close takes an unwatched shell, and no      *)
(* watched one.                                                             *)
IdleRule == IdleCloseSparesWatched /\ IdleCloses
=============================================================================
