------------------------------ MODULE ThreadList -----------------------------
(* The list of conversations in one browser tab and the rows behind it       *)
(* (lib/thread-list-store.ts, components/ark-ui/ChatSidebar.tsx,             *)
(* routes/index.tsx): it is refetched and patched in place while turns start *)
(* and end, here, in other tabs and in the background, and rows are deleted. *)
EXTENDS FiniteSets

CONSTANTS Conversations,  \* ids of conversations
          Actions         \* ids of rows a background run seeds

ASSUME ThreadAssumption == Conversations \cap Actions = {}

Threads == Conversations \cup Actions

VARIABLES
  saved,      \* the rows that exist
  busy,       \* threads in which a turn is under way, whoever watches it
  ran,        \* history: actions whose one run has begun
  posted,     \* messages of this tab the server has not taken up
  list,       \* what the resource holds: the rows, and those shown as running
  fetch,      \* the refetch in flight; a new one supersedes it
  watch,      \* the stream of this tab to the turn of each thread
  started,    \* history: rows whose run has begun in view of this tab
  dialog,     \* the rows the delete dialog is about
  deletion    \* the request of the dialog: none, asked, failed, or the rows deleted

serverVars == <<saved, busy, ran, posted>>
listVars == <<list, fetch>>
dialogVars == <<dialog, deletion>>
threadVars == <<serverVars, listVars, watch, started, dialogVars>>

Listing == [ids |-> saved, busy |-> saved \cap busy]
NoRows == [ids |-> {}, busy |-> {}]
Without(rows, ts) == [ids |-> rows.ids \ ts, busy |-> rows.busy \ ts]
Processing == {t \in Threads : watch[t] # "none"}
None == [step |-> "none", gone |-> {}]
Asked == [step |-> "asked", gone |-> {}]
Served(ts) == [step |-> "served", gone |-> ts]

ThreadInit ==
  /\ saved \in SUBSET Threads /\ ran = saved \cap Actions
  /\ busy = {} /\ posted = {}
  /\ list = Listing /\ fetch = [step |-> "none", got |-> NoRows]
  /\ watch = [t \in Threads |-> "none"] /\ started = {}
  /\ dialog = {} /\ deletion = None

------------------------------------------------------------------------------
(* The list *)

(* Mutant: a second refetch is dropped while one is in flight                *)
RefetchOnce ==
  fetch' = IF fetch.step = "none" THEN [step |-> "asked", got |-> NoRows] ELSE fetch

Refetch == fetch' = [step |-> "asked", got |-> NoRows]

ServeList ==
  /\ fetch.step = "asked"
  /\ fetch' = [step |-> "served", got |-> Listing]
  /\ UNCHANGED <<serverVars, list, watch, started, dialogVars>>

Arrive ==
  /\ fetch.step = "served"
  /\ list' = fetch.got /\ fetch' = [step |-> "none", got |-> NoRows]
  /\ UNCHANGED <<serverVars, watch, started, dialogVars>>

(* Mutant: the interval looks at chats only                                  *)
PollConversations == list.busy \cap Conversations # {}

(* The interval runs while a listed action is running. It is longer than a   *)
(* refetch takes.                                                            *)
PollWanted == list.busy \cap Actions # {}
Poll ==
  /\ PollWanted /\ fetch.step = "none"
  /\ Refetch
  /\ UNCHANGED <<serverVars, list, watch, started, dialogVars>>

------------------------------------------------------------------------------
(* Turns *)

(* A message, into a listed conversation or a new one. Nothing is sent past  *)
(* the dialog, and into an action only once it is promoted to a conversation.*)
SendTo(c) ==
  /\ dialog = {} /\ c \notin Processing \cup posted
  /\ posted' = posted \cup {c}
  /\ watch' = [watch EXCEPT ![c] = "sent"]
  /\ UNCHANGED <<saved, busy, ran, listVars, started, dialogVars>>

(* The row is persisted before the first event goes out.                     *)
SeedRow(c) ==
  /\ c \in posted /\ posted' = posted \ {c}
  /\ saved' = saved \cup {c} /\ busy' = busy \cup {c}
  /\ watch' = [watch EXCEPT ![c] = IF @ = "sent" THEN "seeded" ELSE @]
  /\ UNCHANGED <<ran, listVars, started, dialogVars>>

(* A message from another tab, or the start of a background run.             *)
SeedElsewhere(t) ==
  /\ t \notin busy \cup ran /\ ran' = ran \cup ({t} \cap Actions)
  /\ saved' = saved \cup {t} /\ busy' = busy \cup {t}
  /\ UNCHANGED <<posted, listVars, watch, started, dialogVars>>

(* onRunStarted                                                              *)
FirstFrame(c) ==
  /\ watch[c] = "seeded"
  /\ watch' = [watch EXCEPT ![c] = "live"]
  /\ started' = started \cup ({c} \cap saved)
  /\ Refetch
  /\ UNCHANGED <<serverVars, list, dialogVars>>

(* The save at the end of a turn is an upsert.                               *)
EndRun(t) ==
  /\ t \in busy /\ busy' = busy \ {t}
  /\ saved' = saved \cup {t}
  /\ UNCHANGED <<ran, posted, listVars, watch, started, dialogVars>>

(* onContextUpdate and onRunSettled                                          *)
RunSettles(c) ==
  /\ watch[c] = "live" /\ c \notin busy
  /\ watch' = [watch EXCEPT ![c] = "none"]
  /\ Refetch
  /\ UNCHANGED <<serverVars, list, started, dialogVars>>

(* The stream breaks, which settles the run for this tab, or the user stops  *)
(* watching, which does not. The turn goes on.                               *)
LoseStream(c) ==
  /\ c \in Processing
  /\ watch' = [watch EXCEPT ![c] = "none"]
  /\ Refetch \/ UNCHANGED fetch
  /\ UNCHANGED <<serverVars, list, started, dialogVars>>

------------------------------------------------------------------------------
(* Deletion *)

(* canDeleteRow: not while this tab knows of a run in it.                    *)
MayDelete == list.ids \ Processing

(* The dialog opens for one row, or for those ticked that are idle.          *)
AskDelete ==
  /\ dialog = {}
  /\ \E ts \in SUBSET MayDelete \ {{}} : dialog' = ts
  /\ UNCHANGED <<serverVars, listVars, watch, started, deletion>>

Cancel ==
  /\ deletion = None /\ dialog # {} /\ dialog' = {}
  /\ UNCHANGED <<serverVars, listVars, watch, started, deletion>>

ConfirmDelete ==
  /\ deletion = None /\ dialog # {} /\ deletion' = Asked
  /\ UNCHANGED <<serverVars, listVars, watch, started, dialog>>

(* DELETE ... RETURNING id                                                   *)
ServeDelete ==
  /\ deletion = Asked /\ deletion' = Served(dialog \cap saved)
  /\ saved' = saved \ dialog /\ started' = started \ dialog
  /\ UNCHANGED <<busy, ran, posted, listVars, watch, dialog>>

(* remove and handleDeleteThreads: list and registry forget what is gone.    *)
Deleted ==
  /\ deletion.step = "served" /\ deletion' = None /\ dialog' = {}
  /\ list' = Without(list, deletion.gone)
  /\ watch' = [t \in Threads |-> IF t \in deletion.gone THEN "none" ELSE watch[t]]
  /\ UNCHANGED <<serverVars, fetch, started>>

(* The request fails, and the dialog stays.                                  *)
NotDeleted ==
  /\ deletion = Asked /\ deletion' = None
  /\ UNCHANGED <<serverVars, listVars, watch, started, dialog>>

DeleteElsewhere(t) ==
  /\ t \in saved /\ saved' = saved \ {t} /\ started' = started \ {t}
  /\ UNCHANGED <<busy, ran, posted, listVars, watch, dialogVars>>

------------------------------------------------------------------------------
ThreadNext ==
  \/ ServeList \/ Arrive \/ Poll
  \/ \E c \in Conversations : SendTo(c) \/ SeedRow(c) \/ FirstFrame(c) \/ RunSettles(c) \/ LoseStream(c)
  \/ \E t \in Threads : SeedElsewhere(t) \/ EndRun(t) \/ DeleteElsewhere(t)
  \/ AskDelete \/ Cancel \/ ConfirmDelete \/ ServeDelete \/ Deleted \/ NotDeleted

(* The server answers a list that is asked for again and again, the interval *)
(* fires, and a turn ends.                                                   *)
ThreadFairness ==
  /\ WF_threadVars(ServeList) /\ SF_threadVars(Arrive) /\ WF_threadVars(Poll)
  /\ \A t \in Actions : WF_threadVars(EndRun(t))

ThreadSpec == ThreadInit /\ [][ThreadNext]_threadVars /\ ThreadFairness

------------------------------------------------------------------------------
(* A run that began in view of this tab is listed, or a refetch that will    *)
(* list it is under way, whatever refetches, patches and deletions came in   *)
(* between.                                                                  *)
StartedIsListed ==
  \A t \in started \cap saved :
    t \in list.ids \/ fetch.step = "asked" \/ t \in fetch.got.ids

(* An action the list shows as running is not shown so for good: no channel  *)
(* tells this tab of its end, and the list is asked again until it says so.  *)
RunningActionSettles ==
  \A t \in Actions : t \in list.busy ~> t \notin list.busy

(* What the comments at canDeleteRow and handleDeleteThreads say: a running  *)
(* row is not deleted, for the end of its run would save it again.           *)
RunningNotDeleted ==
  [][\A t \in deletion'.gone \ deletion.gone : t \notin busy]_threadVars
==============================================================================
