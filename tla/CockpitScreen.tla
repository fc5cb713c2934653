------------------------------ MODULE CockpitScreen -----------------------------
(***************************************************************************)
(* The data of the cockpit in the browser (cockpit-ui, useCockpitData):    *)
(* a refresh asks for everything and replaces everything, a poll asks for  *)
(* the executions and replaces only them, and both overlap freely, since   *)
(* nothing cancels or orders them.  A call may fail, and answers that were *)
(* given early may arrive late.                                            *)
(*                                                                         *)
(* The server is the back end reduced to what the screen can tell apart:   *)
(* the version `now` of its executions (client_execution) and its clients  *)
(* (cockpit/client_management.py).  The overview, usage and billing of a refresh are asked *)
(* and painted as its executions are, and are left out, as the details of  *)
(* the clients are.                                                        *)
(***************************************************************************)
EXTENDS Naturals

CONSTANTS
    NewClients,   \* clients created from the screen, one createClient for each
    Polls,        \* polls that may be under way at the same time
    MaxVersion,   \* bound on the changes of the executions
    Mount,        \* the refresh of useEffect; the others are named by the client
    Pending, Failed, NoRefresh

ASSUME ScreenAssumption == Mount \notin NewClients /\ MaxVersion \in Nat

Refreshes == NewClients \cup {Mount}
Versions  == 0..MaxVersion

VARIABLES
    now, clients,   \* the server
    data, loading,  \* the two states of the hook
    refresh,        \* the calls of each refreshAll
    poll,           \* the calls of the timer
    create,         \* how far each createClient is
    painter,        \* history: the refresh whose answer was painted last
    ahead           \* history: the refreshes under way when each POST was answered

screen == <<now, clients, data, loading, refresh, poll, create, painter, ahead>>

NotAsked == [at |-> "idle", executions |-> Pending, clients |-> Pending]
Asked    == [at |-> "asking", executions |-> Pending, clients |-> Pending]

SInit ==
    /\ now     = 0
    /\ clients = {}
    /\ data    = [executions |-> Failed, clients |-> {}]
    /\ loading = TRUE
    /\ refresh = [r \in Refreshes |-> IF r = Mount THEN Asked ELSE NotAsked]
    /\ poll    = [p \in Polls |-> NotAsked]
    /\ create  = [c \in NewClients |-> "idle"]
    /\ painter = NoRefresh
    /\ ahead   = [c \in NewClients |-> {}]

-----------------------------------------------------------------------------
\* Executions go on.
Progress ==
    /\ now < MaxVersion
    /\ now' = now + 1
    /\ UNCHANGED <<clients, data, loading, refresh, poll, create, painter, ahead>>

\* Two of the calls of refreshAll, each answered or not.
AnswerExecutions(r) ==
    /\ refresh[r].at = "asking" /\ refresh[r].executions = Pending
    /\ \E answer \in {now, Failed} : refresh' = [refresh EXCEPT ![r].executions = answer]
    /\ UNCHANGED <<now, clients, data, loading, poll, create, painter, ahead>>

AnswerClients(r) ==
    /\ refresh[r].at = "asking" /\ refresh[r].clients = Pending
    /\ \E answer \in {clients, Failed} : refresh' = [refresh EXCEPT ![r].clients = answer]
    /\ UNCHANGED <<now, clients, data, loading, poll, create, painter, ahead>>

Listed(r) == IF refresh[r].clients = Failed THEN {} ELSE refresh[r].clients

\* allSettled: every call was answered, and then every call for the details of a
\* client of the answer; all of it is painted at once.
Paint(r) ==
    /\ refresh[r].at = "asking"
    /\ refresh[r].executions # Pending /\ refresh[r].clients # Pending
    /\ data' = [executions |-> refresh[r].executions, clients |-> Listed(r)]
    /\ loading' = FALSE
    /\ refresh' = [refresh EXCEPT ![r].at = "painted", ![r].executions = Pending]
    /\ create' = [c \in NewClients |-> IF c = r THEN "done" ELSE create[c]]
    /\ painter' = r
    /\ UNCHANGED <<now, clients, poll, ahead>>

-----------------------------------------------------------------------------
\* setInterval: the next poll is asked whether or not the last was answered.
AskPoll(p) ==
    /\ poll[p].at = "idle"
    /\ poll' = [poll EXCEPT ![p] = Asked]
    /\ UNCHANGED <<now, clients, data, loading, refresh, create, painter, ahead>>

AnswerPoll(p) ==
    /\ poll[p].at = "asking" /\ poll[p].executions = Pending
    /\ poll' = [poll EXCEPT ![p].executions = now]
    /\ UNCHANGED <<now, clients, data, loading, refresh, create, painter, ahead>>

PaintPoll(p) ==
    /\ poll[p].at = "asking" /\ poll[p].executions # Pending
    /\ data' = [data EXCEPT !.executions = poll[p].executions]
    /\ poll' = [poll EXCEPT ![p] = NotAsked]
    /\ UNCHANGED <<now, clients, loading, refresh, create, painter, ahead>>

\* With a bug: a poll that fails takes the snapshot off the screen.
FailPollClearing(p) ==
    /\ poll[p].at = "asking"
    /\ data' = [data EXCEPT !.executions = Failed]
    /\ poll' = [poll EXCEPT ![p] = NotAsked]
    /\ UNCHANGED <<now, clients, loading, refresh, create, painter, ahead>>

\* With a bug: a poll that fails paints what it has.
FailPollPainting(p) ==
    /\ poll[p].at = "asking"
    /\ data' = [data EXCEPT !.executions = poll[p].executions]
    /\ poll' = [poll EXCEPT ![p] = NotAsked]
    /\ UNCHANGED <<now, clients, loading, refresh, create, painter, ahead>>

\* A poll that fails keeps the last snapshot, and the timer.
FailPoll(p) ==
    /\ poll[p].at = "asking"
    /\ poll' = [poll EXCEPT ![p] = NotAsked]
    /\ UNCHANGED <<now, clients, data, loading, refresh, create, painter, ahead>>

-----------------------------------------------------------------------------
\* With a bug: refreshAll does not wait for the POST.
PostAndRefresh(c) ==
    /\ create[c] = "idle" /\ ~loading
    /\ create' = [create EXCEPT ![c] = "posting"]
    /\ refresh' = [refresh EXCEPT ![c] = Asked]
    /\ loading' = TRUE
    /\ UNCHANGED <<now, clients, data, poll, painter, ahead>>

\* createClient, from the form, which is not there while the page is loading.
Post(c) ==
    /\ create[c] = "idle" /\ ~loading
    /\ create' = [create EXCEPT ![c] = "posting"]
    /\ UNCHANGED <<now, clients, data, loading, refresh, poll, painter, ahead>>

\* The server creates the client, unless the request does not reach it.
Store(c) ==
    /\ create[c] = "posting" /\ c \notin clients
    /\ clients' = clients \cup {c}
    /\ UNCHANGED <<now, data, loading, refresh, poll, create, painter, ahead>>

\* The POST was answered: refreshAll, which is awaited.
StartRefresh(c) ==
    /\ create[c] = "posting" /\ c \in clients
    /\ create' = [create EXCEPT ![c] = "refreshing"]
    /\ ahead' = [ahead EXCEPT ![c] = {r \in Refreshes : refresh[r].at = "asking"}]
    /\ refresh' = [refresh EXCEPT ![c] = Asked]
    /\ loading' = TRUE
    /\ UNCHANGED <<now, clients, data, poll, painter>>

\* The POST failed, or its answer was lost: an error in the form, no refresh.
FailPost(c) ==
    /\ create[c] = "posting"
    /\ create' = [create EXCEPT ![c] = "failed"]
    /\ UNCHANGED <<now, clients, data, loading, refresh, poll, painter, ahead>>

SNext ==
    \/ Progress
    \/ \E r \in Refreshes : AnswerExecutions(r) \/ AnswerClients(r) \/ Paint(r)
    \/ \E p \in Polls : AskPoll(p) \/ AnswerPoll(p) \/ PaintPoll(p) \/ FailPoll(p)
    \/ \E c \in NewClients : Post(c) \/ Store(c) \/ StartRefresh(c) \/ FailPost(c)

\* The timer goes on, calls are answered or fail, and of the polls that are
\* asked for ever some are answered.
SFairness ==
    /\ \A r \in Refreshes :
          WF_screen(AnswerExecutions(r)) /\ WF_screen(AnswerClients(r)) /\ WF_screen(Paint(r))
    /\ \A p \in Polls :
          WF_screen(AskPoll(p)) /\ SF_screen(AnswerPoll(p)) /\ SF_screen(PaintPoll(p))

SSpec     == SInit /\ [][SNext]_screen
SFairSpec == SSpec /\ SFairness

-----------------------------------------------------------------------------
\* Every variable stays in its type.
STypeOK ==
    /\ now \in Versions
    /\ clients \subseteq NewClients
    /\ data.executions \in Versions \cup {Failed}
    /\ data.clients \subseteq NewClients
    /\ loading \in BOOLEAN
    /\ \A r \in Refreshes :
          /\ refresh[r].at \in {"idle", "asking", "painted"}
          /\ refresh[r].executions \in Versions \cup {Pending, Failed}
          /\ refresh[r].clients \in (SUBSET NewClients) \cup {Pending, Failed}
    /\ \A p \in Polls :
          /\ poll[p].at \in {"idle", "asking"}
          /\ poll[p].executions \in Versions \cup {Pending}
    /\ create \in [NewClients -> {"idle", "posting", "refreshing", "failed", "done"}]
    /\ painter \in Refreshes \cup {NoRefresh}
    /\ ahead \in [NewClients -> SUBSET Refreshes]

(***************************************************************************)
(* A client whose creation was reported is on the screen, unless the last  *)
(* refresh could not read the clients or is an older one, that was under   *)
(* way when the creation was answered and arrived late; nothing asks for   *)
(* the clients again after that one (useCockpitData.js:48, 83-87).         *)
(***************************************************************************)
CreatedIsShown ==
    \A c \in NewClients : create[c] = "done" /\ c \notin data.clients =>
        \/ refresh[painter].clients = Failed
        \/ painter \in ahead[c]

(***************************************************************************)
(* Once the executions are quiet the screen shows them for good, however   *)
(* many calls failed or arrived late, and every refresh lets the page be   *)
(* shown again (useCockpitData.js:49, 56-67).                              *)
(***************************************************************************)
ScreenCatchesUp ==
    /\ \A v \in Versions : <>[](now = v) => <>[](data.executions = v)
    /\ loading ~> ~loading
=============================================================================
