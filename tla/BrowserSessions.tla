--------------------------- MODULE BrowserSessions ---------------------------
(***************************************************************************)
(* The conversations of one browser tab: the buffers the registry keeps for*)
(* each, the runs that fill them while another is on screen, the pruning of*)
(* idle ones on a switch, and the hydration of an opened one from the row  *)
(* on the server (app/src/lib/session-registry.ts, run-registry.ts and     *)
(* turn-stream.ts, wired by components/ark-ui/ChatInterface.tsx and        *)
(* routes/index.tsx).  A post is one message of the user and its turn.     *)
(***************************************************************************)
EXTENDS Naturals, FiniteSets

CONSTANTS
  Chats, Posts, Loads,
  Cap,          (* maxConcurrentRuns                                             *)
  SlowTiers,    (* may a write of the tier be in flight when a message is sent   *)
  SlowLoads     (* may a load outlast the visit of the chat it is for            *)

ASSUME BrowserAssumption == Posts \subseteq Nat \ {0} /\ Cap \in Nat /\ SlowTiers \in BOOLEAN /\ SlowLoads \in BOOLEAN

VARIABLES
  view,         (* the conversation on screen                                    *)
  savedTurns,          (* the turns the server has saved for each (external)            *)
  buffer,       (* the messages the registry holds: <<"q", p>> and <<"a", p>>    *)
  panel,        (* how often it holds the events of each turn                    *)
  running,      (* isProcessing                                                  *)
  post,         (* each post: its chat, its step, whether its events have come   *)
  newest,       (* the post sent last in each chat                               *)
  load,         (* loadConversation calls in flight and what they have read      *)
  marked        (* completion marks                                              *)

browserVars == <<view, savedTurns, buffer, panel, running, post, newest, load, marked>>
registry    == <<buffer, panel>>

History == 0
NoChat  == "none"

(* The id of a conversation is a UUID.                                       *)
ASSUME ChatsAssumption == NoChat \notin Chats

TurnsShown   == Posts \cup {History}
Exchange(p) == {<<"q", p>>, <<"a", p>>}
Blank   == [p \in TurnsShown |-> 0]
NoLoad  == [of |-> NoChat, read |-> FALSE, got |-> {}]
Loading(c) == {i \in Loads : load[i].of = c}

-----------------------------------------------------------------------------
BrowserInit ==
  /\ view \in Chats /\ savedTurns \in [Chats -> {{}, {History}}]
  /\ buffer = [c \in Chats |-> IF c = view THEN UNION {Exchange(p) : p \in savedTurns[c]} ELSE {}]
  /\ panel = [c \in Chats |-> [p \in TurnsShown |-> IF c = view /\ p \in savedTurns[c] THEN 1 ELSE 0]]
  /\ running = [c \in Chats |-> FALSE] /\ marked = {}
  /\ post = [p \in Posts |-> [of |-> NoChat, step |-> "new", heard |-> FALSE]]
  /\ newest = [c \in Chats |-> History] /\ load = [i \in Loads |-> NoLoad]

(* isAtConcurrencyCap                                                        *)
AtCap == Cap > 0 /\ Cardinality({c \in Chats : running[c]}) >= Cap

(* runSend: the message goes to the buffer of the chat on screen, and the    *)
(* run starts once no tier write is in flight.                               *)
Send(p) ==
  /\ post[p].step = "new" /\ ~running[view] /\ ~AtCap
  /\ buffer' = [buffer EXCEPT ![view] = @ \cup {<<"q", p>>}]
  /\ newest' = [newest EXCEPT ![view] = p]
  /\ \E waits \in {FALSE, SlowTiers} :
       /\ post' = [post EXCEPT ![p].of = view, ![p].step = IF waits THEN "waiting" ELSE "streaming"]
       /\ running' = [running EXCEPT ![view] = ~waits]
  /\ UNCHANGED <<view, savedTurns, panel, load, marked>>

OpenStream(p) ==
  /\ post[p].step = "waiting"
  /\ post' = [post EXCEPT ![p].step = "streaming"]
  /\ running' = [running EXCEPT ![post[p].of] = TRUE]
  /\ UNCHANGED <<view, savedTurns, registry, newest, load, marked>>

(* The event frames of the turn, as one.                                     *)
Hear(p) ==
  /\ post[p].step = "streaming" /\ ~post[p].heard
  /\ post' = [post EXCEPT ![p].heard = TRUE]
  /\ panel' = [panel EXCEPT ![post[p].of][p] = @ + 1]
  /\ UNCHANGED <<view, savedTurns, buffer, running, newest, load, marked>>

(* The server saves the turn (external), whoever still watches.              *)
ServerSaves(p) ==
  /\ post[p].step \in {"streaming", "stopped"} /\ p \notin savedTurns[post[p].of]
  /\ savedTurns' = [savedTurns EXCEPT ![post[p].of] = @ \cup {p}]
  /\ UNCHANGED <<view, registry, running, post, newest, load, marked>>

(* The stream ends: the answer, or an error bubble when it broke off.  A run *)
(* that lands out of sight marks its row in the sidebar.                     *)
Land(p) ==
  LET c == post[p].of IN
  /\ post[p].step = "streaming"
  /\ \/ p \in savedTurns[c] /\ post[p].heard /\ post' = [post EXCEPT ![p].step = "landed"]
     \/ post' = [post EXCEPT ![p].step = "broken"]
  /\ buffer' = [buffer EXCEPT ![c] = @ \cup {<<"a", p>>}]
  /\ running' = [running EXCEPT ![c] = FALSE]
  /\ marked' = (IF c = view THEN marked ELSE marked \cup {c})
  /\ UNCHANGED <<view, savedTurns, panel, newest, load>>

Stop(p) ==
  /\ post[p].step = "streaming" /\ post[p].of = view
  /\ post' = [post EXCEPT ![p].step = "stopped"]
  /\ running' = [running EXCEPT ![view] = FALSE]
  /\ UNCHANGED <<view, savedTurns, registry, newest, load, marked>>

-----------------------------------------------------------------------------
(* pruneIdle: what an idle chat holds can be read again.  Mutant: and that of*)
(* a running one goes too.                                                   *)
AllOthers(keep) == Chats \ {keep}
Prunable(keep) == {c \in Chats : c # keep /\ ~running[c]}

(* hasLocalTurn.  Mutant: only a run in flight counts.                       *)
LiveOnly(c, messages) == running[c]
HasLocalTurn(c, messages) == running[c] \/ messages # {}

(* A chat comes on screen: one that holds nothing is cleared and loaded.     *)
Open(c, kept, panels) ==
  /\ view' = c /\ (SlowLoads \/ Loading(view) = {})
  /\ IF HasLocalTurn(c, kept[c])
     THEN buffer' = kept /\ panel' = panels /\ UNCHANGED load
     ELSE /\ buffer' = [kept EXCEPT ![c] = {}] /\ panel' = [panels EXCEPT ![c] = Blank]
          /\ \E i \in Loading(NoChat) : load' = [load EXCEPT ![i] = [NoLoad EXCEPT !.of = c]]

(* From the sidebar, or as a new chat.                                       *)
Select(c) ==
  /\ c # view /\ marked' = marked \ {c}
  /\ Open(c, [d \in Chats |-> IF d \in Prunable(c) THEN {} ELSE buffer[d]],
             [d \in Chats |-> IF d \in Prunable(c) THEN Blank ELSE panel[d]])
  /\ UNCHANGED <<savedTurns, running, post, newest>>

(* With the back button of the browser, which prunes nothing.                *)
Back(c) == c # view /\ Open(c, buffer, panel) /\ UNCHANGED <<savedTurns, running, post, newest, marked>>

ServerReads(i) ==
  /\ load[i].of # NoChat /\ ~load[i].read
  /\ load' = [load EXCEPT ![i].read = TRUE, ![i].got = savedTurns[load[i].of]]
  /\ UNCHANGED <<view, savedTurns, registry, running, post, newest, marked>>

(* What was loaded fills a buffer that still holds nothing; a conversation   *)
(* without a row rejects, which leaves it empty.                             *)
Hydrate(i) ==
  LET c == load[i].of IN
  /\ load[i].read /\ load' = [load EXCEPT ![i] = NoLoad]
  /\ IF HasLocalTurn(c, buffer[c]) THEN UNCHANGED registry
     ELSE /\ buffer' = [buffer EXCEPT ![c] = UNION {Exchange(p) : p \in load[i].got}]
          /\ panel' = [panel EXCEPT ![c] = [p \in TurnsShown |-> @[p] + (IF p \in load[i].got THEN 1 ELSE 0)]]
  /\ UNCHANGED <<view, savedTurns, running, post, newest, marked>>

BrowserNext ==
  \/ \E p \in Posts : Send(p) \/ OpenStream(p) \/ Hear(p) \/ ServerSaves(p) \/ Land(p) \/ Stop(p)
  \/ \E c \in Chats : Select(c) \/ Back(c)
  \/ \E i \in Loads : ServerReads(i) \/ Hydrate(i)

BrowserSpec == BrowserInit /\ [][BrowserNext]_browserVars

-----------------------------------------------------------------------------
(* The only live copy of a turn is never dropped or doubled, whichever chats *)
(* are opened, pruned and hydrated while it runs.                            *)
LiveTurnKept == \A p \in Posts : post[p].step = "streaming" =>
  /\ <<"q", p>> \in buffer[post[p].of]
  /\ panel[post[p].of][p] = IF post[p].heard THEN 1 ELSE 0

(* Once a chat on screen is at rest, it shows the last exchange that landed  *)
(* in it, and no event twice.                                                *)
AtRest == ~running[view] /\ Loading(view) = {}
LastTurnShown ==
  AtRest => /\ \A p \in TurnsShown : panel[view][p] <= 1
            /\ LET p == newest[view] IN
               p \in Posts /\ post[p].step = "landed" => Exchange(p) \subseteq buffer[view]

(* No exchange is lost from sight, neither while it runs nor afterwards.     *)
ExchangesShown == LiveTurnKept /\ LastTurnShown
=============================================================================
