------------------------------ MODULE Startup ------------------------------
(***************************************************************************)
(* How a site's process comes up, and what meets it while it does: the     *)
(* constructors of RIManager, SDMMaster or SDMSlave, SDMCEntity, SDMNode   *)
(* and Commer, and the first requests of the applications.  A server       *)
(* listens as soon as its Commer is made, and every message is handled in  *)
(* a thread of its own, so that handlers find objects that are only partly *)
(* there: the virtual functions are those of the class whose constructor   *)
(* runs.  Then a site registers with the master (conn_up), an application  *)
(* registers with its first request (reg_app), and the master writes down  *)
(* where each put is.                                                      *)
(*                                                                         *)
(* The handlers of the overlay are one step each here: how they interleave *)
(* is SDMNode's matter, with the wake-ups join can miss.  What follows a   *)
(* null pointer or calls a pure virtual function ends the process.         *)
(***************************************************************************)
EXTENDS Syncer, Naturals, Sequences

CONSTANTS
    SSite, MasterSite,
    Request,    \* what applications ask for: [id, site, app], all of them puts
    Scenario    \* the sites that are launched, the requests that come

ASSUME StartAssumption ==
    /\ MasterSite \in SSite
    /\ \A r \in Request : r.site \in SSite
    /\ \A s \in Scenario : s.sites \subseteq SSite /\ s.requests \subseteq Request

VARIABLES
    scenario,
    stage,      \* stage[n]: how many of its constructor's stages n has reached
    status,     \* status[n]: "up", "closed" or what ended the process
    asked,      \* the sites whose join has reached the join host
    joined,     \* the sites whose join has returned
    speers,     \* speers[n]: the peers of n's overlay node
    smsgs,      \* messages in flight
    reg,        \* ds_id_v of the master's WASpace
    early,      \* history: what reached the master before it was an SDMMaster
    appds,      \* app_id__ds_id_map of the master's WASpace, as a set of pairs
    regs,       \* regs[n]: app_id_v
    appsync,    \* appsync[n]: sdm_s_syncer, the points of SDM_REG_APP
    reqpc,      \* reqpc[r]: where the application and handle_put are
    missed,     \* history: replies to a registration nobody waited for yet
    located,    \* pairs of a request and the site whose kv_map got the put
    dropped     \* puts the master's WASpace has refused

ctorVars == <<stage, status, asked, joined>>
meshVars == <<speers, smsgs>>
wasVars  == <<reg, early, appds, located, dropped>>
reqVars  == <<regs, appsync, reqpc, missed>>
svars    == <<scenario, ctorVars, meshVars, wasVars, reqVars>>

StartupStart ==
    /\ stage = [n \in SSite |-> 0] /\ status = [n \in SSite |-> "up"]
    /\ asked = {} /\ joined = {}
    /\ speers = [n \in SSite |-> {}] /\ smsgs = {}
    /\ reg = {} /\ early = {} /\ appds = {} /\ located = {} /\ dropped = {}
    /\ regs = [n \in SSite |-> {}] /\ appsync = [n \in SSite |-> EmptySyncer]
    /\ reqpc = [r \in Request |-> "new"] /\ missed = {}

StartupInit == scenario \in Scenario /\ StartupStart
StartupIdle == StartupStart /\ scenario = CHOOSE s \in Scenario : TRUE

-----------------------------------------------------------------------------
(* Construction.                                                            *)

\* RIManager.  The control entity: Commer's server listens; the peer maps are there
\* and the class is SDMCEntity; SDMSlave; SDMMaster, with wa_space_.  Then sdm_slave_
\* is set; the local server listens; lsdm_node_ is set, and from there on signals
\* are handled.
SlaveStages  == <<"base", "server", "join", "slave", "set", "local", "ready">>
MasterStages == <<"base", "server", "join", "slave", "master", "set", "local", "ready">>

Stages(n) == IF n = MasterSite THEN MasterStages ELSE SlaveStages

Passed(n, s) == \E i \in 1 .. stage[n] : Stages(n)[i] = s
Up(n)        == status[n] = "up" /\ Passed(n, "server")

Launch(n) ==
    /\ n \in scenario.sites /\ stage[n] = 0
    /\ stage' = [stage EXCEPT ![n] = 1]
    /\ UNCHANGED <<scenario, status, asked, joined, meshVars, wasVars, reqVars>>

\* reg_ds of the master's WASpace.
RegDs(n) == reg' = reg \cup {n}

\* join of the first node returns at once, of another with the join host's reply.
JoinReturns(n) == n = MasterSite \/ n \in joined

\* The next stage.  SDMNode's constructor ends when join has returned.
Construct(n) ==
    /\ status[n] = "up" /\ stage[n] \in 1 .. Len(Stages(n)) - 1
    /\ Stages(n)[stage[n] + 1] = "slave" => JoinReturns(n)
    /\ stage' = [stage EXCEPT ![n] = @ + 1]
    /\ IF Stages(n)[stage'[n]] = "master" THEN RegDs(n) ELSE UNCHANGED reg
    /\ UNCHANGED <<scenario, status, asked, joined, meshVars, early, appds, located, dropped, reqVars>>

\* RIManager::close, on SIGINT, ends with exit.
RIClose(n) ==
    /\ status[n] = "up" /\ Passed(n, "ready")
    /\ status' = [status EXCEPT ![n] = "closed"]
    /\ UNCHANGED <<scenario, stage, asked, joined, meshVars, wasVars, reqVars>>

-----------------------------------------------------------------------------
(* Joining.                                                                 *)

SMsg(type, from, to) == [type |-> type, from |-> from, to |-> to, list |-> {}, req |-> {}]
Ends(n, why)         == status' = [status EXCEPT ![n] = why]
Handles(m, type)     == m.type = type /\ Up(m.to)

\* join tries every second until the join host's server accepts.
JoinRequest(n) ==
    /\ n # MasterSite /\ status[n] = "up" /\ Passed(n, "join")
    /\ n \notin asked /\ Up(MasterSite)
    /\ asked' = asked \cup {n}
    /\ smsgs' = smsgs \cup {SMsg("REQUEST", n, MasterSite)}
    /\ UNCHANGED <<scenario, stage, status, joined, speers, wasVars, reqVars>>

\* handle_join_req.  Before Commer's maps are made this is undefined: the process
\* ends, or the peer is forgotten when they are.
HandleJoinReq(m) ==
    LET n == m.to
    IN  /\ Handles(m, "REQUEST")
        /\ \/ /\ ~Passed(n, "join")
              /\ Ends(n, "no maps")
              /\ smsgs' = smsgs \ {m}
              /\ UNCHANGED speers
           \/ /\ UNCHANGED status
              /\ speers' = IF Passed(n, "join") THEN [speers EXCEPT ![n] = @ \cup {m.from}] ELSE speers
              /\ smsgs' = (smsgs \ {m}) \cup
                    IF m.from \in speers[n] THEN {}
                    ELSE {[SMsg("REPLY", n, m.from) EXCEPT !.list = speers[n]]}
        /\ UNCHANGED <<scenario, stage, asked, joined, wasVars, reqVars>>

\* handle_join_reply: the joiner acks and asks those who are listed.
HandleJoinReply(m) ==
    LET n == m.to
        others == m.list \ (speers[n] \cup {n})
    IN  /\ Handles(m, "REPLY")
        /\ joined' = joined \cup {n}
        /\ speers' = [speers EXCEPT ![n] = @ \cup {m.from}]
        /\ smsgs' = (smsgs \ {m}) \cup {SMsg("ACK", n, m.from)}
                        \cup {SMsg("REQUEST", n, k) : k \in others}
        /\ UNCHANGED <<scenario, stage, status, asked, wasVars, reqVars>>

\* Mutant of HandleConnUp: only a master that is ready registers.
HandleConnUpReady(m) ==
    LET n == m.to
    IN  /\ Handles(m, "ACK")
        /\ smsgs' = smsgs \ {m}
        /\ IF ~Passed(n, "slave") THEN Ends(n, "pure virtual") ELSE UNCHANGED status
        /\ reg' = IF Passed(n, "master") /\ Passed(n, "ready") THEN reg \cup {m.from} ELSE reg
        /\ early' = IF n = MasterSite /\ ~Passed(n, "master") THEN early \cup {m.from} ELSE early
        /\ UNCHANGED <<scenario, stage, asked, joined, speers, appds, located, dropped, reqVars>>

\* handle_conn_up: pure in SDMCEntity, a line in the log in SDMSlave, reg_ds in
\* SDMMaster.
HandleConnUp(m) ==
    LET n == m.to
    IN  /\ Handles(m, "ACK")
        /\ smsgs' = smsgs \ {m}
        /\ IF ~Passed(n, "slave") THEN Ends(n, "pure virtual") ELSE UNCHANGED status
        /\ IF Passed(n, "master") THEN RegDs(m.from) ELSE UNCHANGED reg
        /\ early' = IF n = MasterSite /\ ~Passed(n, "master") THEN early \cup {m.from} ELSE early
        /\ UNCHANGED <<scenario, stage, asked, joined, speers, appds, located, dropped, reqVars>>

-----------------------------------------------------------------------------
(* Requests.                                                                *)

\* reg_app of the master's WASpace: an id that is known is refused, whoever has it.
Known(app)        == \E p \in appds : p[1] = app
WasRegApp(app, n) == appds' = IF Known(app) THEN appds ELSE appds \cup {<<app, n>>}
SiteOf(app)       == (CHOOSE p \in appds : p[1] = app)[2]

\* ds_id__kv_map has no entry for a site that is not registered.
UnknownDs(r) == Known(r.app) /\ SiteOf(r.app) \notin reg

\* MWASpace::put: refused without a registration; otherwise the put is written
\* down for the site that registered the application.
WasPut(r) ==
    \/ ~Known(r.app) /\ dropped' = dropped \cup {r} /\ UNCHANGED located
    \/ /\ Known(r.app)
       /\ located' = IF UnknownDs(r) THEN located ELSE located \cup {<<r, SiteOf(r.app)>>}
       /\ UNCHANGED dropped

Req(r, l) == reqpc' = [reqpc EXCEPT ![r] = l]
ReqAt(r, l) == reqpc[r] = l /\ status[r.site] = "up"

\* WADSDriver's constructor sleeps, joins the local node, trying every second,
\* and the application puts.
AppRequest(r) ==
    /\ ReqAt(r, "new") /\ r \in scenario.requests
    /\ Passed(r.site, "local")
    /\ Req(r, "sent")
    /\ UNCHANGED <<scenario, ctorVars, meshVars, wasVars, regs, appsync, missed>>

\* Mutant of HandleAppMsg: the registration is not waited for.
HandleAppMsgNoWait(r) ==
    LET n == r.site
    IN  /\ ReqAt(r, "sent")
        /\ Req(r, "put")
        /\ regs' = [regs EXCEPT ![n] = @ \cup {r.app}]
        /\ smsgs' = IF n # MasterSite /\ r.app \notin regs[n]
                    THEN smsgs \cup {[SMsg("REG_APP", n, MasterSite) EXCEPT !.req = {r}]} ELSE smsgs
        /\ IF n = MasterSite THEN WasRegApp(r.app, n) ELSE UNCHANGED appds
        /\ UNCHANGED <<scenario, ctorVars, speers, reg, early, located, dropped, appsync, missed>>

\* reg_app: an application that is in app_id_v already goes on, also while its
\* registration is under way.
SlaveRegApp(r) ==
    LET n == r.site
    IN  /\ regs' = [regs EXCEPT ![n] = @ \cup {r.app}]
        /\ \/ r.app \in regs[n] /\ Req(r, "put") /\ UNCHANGED smsgs
           \/ /\ r.app \notin regs[n]
              /\ Req(r, "reg")
              /\ smsgs' = smsgs \cup {[SMsg("REG_APP", n, MasterSite) EXCEPT !.req = {r}]}
        /\ UNCHANGED appds

\* SDMMaster::reg_app asks its WASpace; handle_put does not look at the answer.
MasterRegApp(r) ==
    /\ WasRegApp(r.app, r.site)
    /\ regs' = IF Known(r.app) THEN regs ELSE [regs EXCEPT ![r.site] = @ \cup {r.app}]
    /\ Req(r, "put")
    /\ UNCHANGED smsgs

\* handle_app_msg and handle_put, up to reg_app's end.
HandleAppMsg(r) ==
    LET n == r.site
    IN  /\ ReqAt(r, "sent")
        /\ IF ~Passed(n, "set")
           THEN Ends(n, "no sdm_slave_") /\ Req(r, "fail") /\ UNCHANGED <<regs, smsgs, appds>>
           ELSE /\ UNCHANGED status
                /\ IF n = MasterSite THEN MasterRegApp(r) ELSE SlaveRegApp(r)
        /\ UNCHANGED <<scenario, stage, asked, joined, speers, reg, early, located, dropped, appsync, missed>>

RegAppWait(r) ==
    /\ ReqAt(r, "reg")
    /\ Req(r, "wait")
    /\ appsync' = [appsync EXCEPT ![r.site] = AddWait(@, r.app, r)]
    /\ UNCHANGED <<scenario, ctorVars, meshVars, wasVars, regs, missed>>

RegAppResume(r) ==
    /\ ReqAt(r, "wait") /\ r \in appsync[r.site].woken
    /\ Req(r, "put")
    /\ appsync' = [appsync EXCEPT ![r.site] = DelPoint(@, r.app, r)]
    /\ UNCHANGED <<scenario, ctorVars, meshVars, wasVars, regs, missed>>

\* The rest of handle_put: sdm_slave_->put, at the master into its WASpace and
\* elsewhere with a notification, and the reply over lsdm_node_.
HandlePut(r) ==
    LET n == r.site
    IN  /\ ReqAt(r, "put")
        /\ status' = [status EXCEPT ![n] = IF n = MasterSite /\ UnknownDs(r) THEN "unknown ds"
                                           ELSE IF Passed(n, "ready") THEN @ ELSE "no lsdm_node_"]
        /\ Req(r, IF status'[n] = "up" THEN "answered" ELSE "fail")
        /\ \/ n = MasterSite /\ WasPut(r) /\ UNCHANGED smsgs
           \/ /\ n # MasterSite
              /\ smsgs' = smsgs \cup {[SMsg("PUT", n, MasterSite) EXCEPT !.req = {r}]}
              /\ UNCHANGED <<located, dropped>>
        /\ UNCHANGED <<scenario, stage, asked, joined, speers, reg, early, appds, regs, appsync, missed>>

\* handle_msg_in at the master.  As an SDMSlave it does not know these types.
\* A registration that is refused is not answered.
HandleRegApp(m) ==
    /\ Handles(m, "REG_APP") /\ Passed(MasterSite, "master")
    /\ \E r \in m.req : WasRegApp(r.app, m.from)
    /\ \/ /\ \A r \in m.req : ~Known(r.app)
          /\ IF m.from \in speers[m.to]
             THEN smsgs' = (smsgs \ {m}) \cup {[SMsg("REG_APP_REPLY", m.to, m.from) EXCEPT !.req = m.req]}
                  /\ UNCHANGED status
             ELSE smsgs' = smsgs \ {m} /\ Ends(m.to, "no client")
       \/ /\ \A r \in m.req : Known(r.app)
          /\ smsgs' = smsgs \ {m}
          /\ UNCHANGED status
    /\ UNCHANGED <<scenario, stage, asked, joined, speers, reg, early, located, dropped, reqVars>>

HandlePutNotification(m) ==
    /\ Handles(m, "PUT") /\ Passed(MasterSite, "master")
    /\ \E r \in m.req : WasPut(r) /\ IF UnknownDs(r) THEN Ends(m.to, "unknown ds") ELSE UNCHANGED status
    /\ smsgs' = smsgs \ {m}
    /\ UNCHANGED <<scenario, stage, asked, joined, speers, reg, early, appds, reqVars>>

HandleTooEarly(m) ==
    /\ m.type \in {"REG_APP", "PUT"} /\ Up(m.to) /\ ~Passed(MasterSite, "master")
    /\ IF Passed(m.to, "slave") THEN UNCHANGED status ELSE Ends(m.to, "pure virtual")
    /\ early' = early \cup {m.from}
    /\ smsgs' = smsgs \ {m}
    /\ UNCHANGED <<scenario, stage, asked, joined, speers, reg, appds, located, dropped, reqVars>>

\* Mutant of HandleRegAppReply: nobody is notified.
HandleRegAppReplyNot(m) ==
    /\ Handles(m, "REG_APP_REPLY")
    /\ smsgs' = smsgs \ {m}
    /\ UNCHANGED <<scenario, ctorVars, speers, wasVars, reqVars>>

HandleRegAppReply(m) ==
    /\ Handles(m, "REG_APP_REPLY")
    /\ \E r \in m.req : \E s \in Notify(appsync[m.to], r.app) :
          /\ appsync' = [appsync EXCEPT ![m.to] = s]
          /\ missed' = IF s = appsync[m.to] THEN missed \cup {r} ELSE missed
    /\ smsgs' = smsgs \ {m}
    /\ UNCHANGED <<scenario, ctorVars, speers, wasVars, regs, reqpc>>

-----------------------------------------------------------------------------
StartupStep ==
    \/ \E n \in SSite : Construct(n) \/ JoinRequest(n)
    \/ \E r \in Request : HandleAppMsg(r) \/ RegAppWait(r) \/ RegAppResume(r) \/ HandlePut(r)
    \/ \E m \in smsgs :
          \/ HandleJoinReq(m) \/ HandleJoinReply(m) \/ HandleConnUp(m) \/ HandleTooEarly(m)
          \/ HandleRegApp(m) \/ HandleRegAppReply(m) \/ HandlePutNotification(m)

StartupNext ==
    \/ StartupStep
    \/ \E n \in SSite : Launch(n) \/ RIClose(n)
    \/ \E r \in Request : AppRequest(r)

\* Constructors, handlers and woken threads go on; nobody has to launch a site, to
\* close it, or to ask for anything.
StartupFair == WF_svars(StartupStep)

StartupSpec == StartupInit /\ [][StartupNext]_svars /\ StartupFair

-----------------------------------------------------------------------------
(* Properties.                                                              *)

\* The same id at two sites.
Duplicate(r) == \E q \in scenario.requests : q.app = r.app /\ q.site # r.site

\* No request meets an RIManager without sdm_slave_: the local node is made after
\* it ("I had to move initialization of lsdm_node here after sdm_slave is ready").
SlaveBeforeApps == \A n \in SSite : status[n] # "no sdm_slave_"

\* A slave that is up is registered with the master, or its ack is still on its
\* way, or it came while the master's constructor was not yet that of SDMMaster:
\* then it is never registered.
RegisteredOrEarly ==
    \A n \in SSite \ {MasterSite} : Passed(n, "set") =>
        \/ n \in reg \cup early
        \/ SMsg("ACK", n, MasterSite) \in smsgs

\* A put is written down for the site it was put at, unless the application's id
\* is also in use at another site.
PutLocated == \A x \in located : x[2] = x[1].site \/ Duplicate(x[1])

\* The put of an application that has one request at a time is never refused by
\* the master; one that has two may lose the second, which does not wait for the
\* registration the first has begun.
PutLostOnlyIf ==
    \A r \in dropped : \E q \in scenario.requests : q # r /\ q.app = r.app /\ q.site = r.site

\* Every request is answered, unless a process ended, the id is in use at another
\* site (the registration is then refused without a word), the master was not
\* ready to register, or the reply came before reg_app waited for it.
AppsServed ==
    \A r \in Request :
        reqpc[r] = "sent" ~>
            \/ reqpc[r] = "answered"
            \/ status[r.site] # "up" \/ status[MasterSite] # "up"
            \/ Duplicate(r) \/ r.site \in early \/ r \in missed

\* A site that is up can serve: its handlers find sdm_slave_, and the master has
\* registered it, unless it came while the master was under construction.
SitesReady == SlaveBeforeApps /\ RegisteredOrEarly

\* The WASpace has the puts of registered applications, each at its site, unless
\* ids are shared or an application does not wait for its registration.
PutsKnown == PutLocated /\ PutLostOnlyIf
=============================================================================
