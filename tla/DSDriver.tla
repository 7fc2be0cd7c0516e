------------------------------ MODULE DSDriver ------------------------------
(***************************************************************************)
(* A process's access to its DataSpaces (dspaces_rel/ds_drive.cpp), and    *)
(* the applications' interface on top of it (WADSDriver, dataspaces_wa.cpp *)
(* and BCClient, dspaces_rel/ds_client.cpp).                               *)
(*                                                                         *)
(* dspaces_get may never return.  reg_get_wait_for_completion hands a get  *)
(* to the one get_poll thread, which runs it in a thread of its own,       *)
(* watches two flags of the driver for a while and then gives up; the      *)
(* thread it has given up goes on, and sets the same flags.  timed_get     *)
(* does the same without get_poll.  WADSDriver::put and get ask the site's *)
(* RIManager (SDMControl, RIManager) and wait for its answer.              *)
(*                                                                         *)
(* DataSpaces is external: a put is in it after dspaces_put_sync, a get of *)
(* data that is there succeeds and any other fails.                        *)
(***************************************************************************)
EXTENDS Syncer, Integers, Sequences, FiniteSets

CONSTANTS
    Call,         \* the calls, each made by a thread of its own
    Kind,         \* Kind[o]: reg, timed, put, send, wput or wget
    Dat,          \* Dat[o]: the data it is about
    Box,          \* Box[o]: [l, u], the bounds of a reg
    MsgSize,      \* MsgSize[o]: the bytes of a send
    Config,       \* the sets of calls that are made together
    Gdim,         \* gdim_
    IntMax,       \* 2^31 - 1
    MaxTick,      \* bound: rounds of the time-out loop (20 and 10 in the code)
    MaxMsg,       \* max_msg_size
    Usec,         \* microseconds of a second
    Now           \* bound: the instants at which a lock is taken

ASSUME DriverAssumption ==
    /\ \A c \in Config : c \subseteq Call
    /\ {IntMax, MaxTick, MaxMsg, Usec} \subseteq Nat \ {0}
    /\ 0 \notin Call
    /\ Gdim \in Nat \X Nat
    /\ Box \in [Call -> [l : Nat \X Nat, u : Nat \X Nat]]
    /\ Now \subseteq [s : Nat, u : 0 .. Usec - 1]
    \* timed_get and get_poll use the same flags under no common lock.  Nobody calls
    \* timed_get, so the two never run together.
    /\ \A c \in Config : ~ {"reg", "timed"} \subseteq {Kind[o] : o \in c}

VARIABLES
    calls,        \* the calls of this behaviour
    pc, res,      \* pc[o], and what o returns, 0 is success
    buf,          \* buf[o]: the data in o's buffer
    space,        \* the data in DataSpaces
    bq,           \* get_info_bq, oldest first
    poll,         \* the get_poll thread: [pc, call, n]
    timer,        \* timer[o]: the counter of a timed_get
    plain,        \* the plain_get threads that run: [call, pc]
    get_done, get_success,
    ret,          \* hashed_data_id__get_return_map; no entry reads as 0
    sync,         \* DSDriver::syncer
    mtx,          \* the holders of dspaces_sync_put_mtx and dspaces_get_mtx
    wsync,        \* WADSDriver::syncer
    ds_id,        \* data_id__ds_id_map
    ri,           \* ri[o]: how far the RIManager is with o's request
    clock,        \* [last, diff, at, locked]: last_lock_time, get_inter_lock_time,
                  \* when it was asked, and (history) the last lock
    closed,
    mem,          \* the process's memory: sound, damaged, or ended with the process
    abandoned,    \* history: the gets that were given up
    misled,       \* history: calls whose flags another call's thread has set
    late,         \* history: calls that were notified before they waited
    missed        \* history: calls pushed while get_poll was about to sleep

callVars == <<pc, res, buf>>
pollVars == <<bq, poll, timer, plain, get_done, get_success, ret, sync>>
appVars  == <<wsync, ds_id, ri>>
history  == <<abandoned, misled, late, missed>>
vars == <<calls, callVars, space, pollVars, mtx, appVars, clock, closed, mem, history>>

NoCall == 0
NoEntry == 2      \* neither a site nor -1
NoData == "nothing"
Data   == {Dat[o] : o \in Call}

-----------------------------------------------------------------------------
(* get_data_length and timeval_subtract.                                    *)

\* Both bounds are inclusive, and may be the dimension itself.  wa_put keeps
\* the product in an int (modelled by its unsigned value).
get_data_length(b) ==
    LET side(i) == b.u[i] - b.l[i] + 1
    IN  IF \A i \in DOMAIN Gdim : b.l[i] <= b.u[i] /\ b.u[i] <= Gdim[i]
        THEN (side(1) * side(2)) % (2 * (IntMax + 1))
        ELSE 0

\* Mutant of timeval_subtract: one second is not carried.
SubtractNoCarry(x, y) == [r |-> [s |-> x.s - y.s, u |-> x.u - y.u], y |-> y]

\* The carry is made in y, which is last_lock_time itself.
timeval_subtract(x, y) ==
    LET k1 == IF x.u < y.u THEN (y.u - x.u) \div Usec + 1 ELSE 0
        y1 == [s |-> y.s + k1, u |-> y.u - Usec * k1]
        k2 == IF x.u - y1.u > Usec THEN (x.u - y1.u) \div Usec ELSE 0
        y2 == [s |-> y1.s - k2, u |-> y1.u + Usec * k2]
    IN  [r |-> [s |-> x.s - y2.s, u |-> x.u - y2.u], y |-> y2]

Zero == [s |-> 0, u |-> 0]

-----------------------------------------------------------------------------
Init ==
    /\ calls \in Config
    /\ pc = [o \in Call |-> "new"] /\ res = [o \in Call |-> 1]
    /\ buf = [o \in Call |-> NoData]
    /\ space \in {{}, {Dat[o] : o \in {c \in calls : Kind[c] \in {"reg", "timed"}}}}
    /\ bq = <<>> /\ poll = [pc |-> "test", call |-> NoCall, n |-> 0]
    /\ timer = [o \in Call |-> 0]
    /\ plain = {} /\ get_done = FALSE /\ get_success = FALSE
    /\ ret = [d \in Data |-> 0]
    /\ sync = EmptySyncer /\ wsync = EmptySyncer
    /\ mtx = [put |-> NoCall, get |-> NoCall]
    /\ ds_id = [d \in Data |-> NoEntry] /\ ri = [o \in Call |-> [pc |-> "none", ans |-> 0]]
    /\ clock = [last |-> Zero, diff |-> Zero, at |-> Zero, locked |-> Zero]
    /\ closed = FALSE /\ mem = "sound"
    /\ abandoned = {} /\ misled = {} /\ late = {} /\ missed = {}

Runs == mem # "ended"

At(o, k, l)  == o \in calls /\ Kind[o] \in k /\ pc[o] = l /\ ~closed /\ Runs
Goes(o, l)   == pc' = [pc EXCEPT ![o] = l]
Returns(o, r) == Goes(o, "ret") /\ res' = [res EXCEPT ![o] = r]

-----------------------------------------------------------------------------
(* reg_get_wait_for_completion, as wa_put calls it.                         *)

\* wa_put refuses a length of 0; otherwise the get is pushed.
RegGet(o) ==
    /\ At(o, {"reg"}, "new")
    /\ IF get_data_length(Box[o]) = 0
       THEN Returns(o, 1) /\ UNCHANGED <<bq, poll, missed>>
       ELSE /\ Goes(o, "pushed")
            /\ bq' = Append(bq, o)
            /\ poll' = IF poll.pc = "asleep" THEN [poll EXCEPT !.pc = "test"] ELSE poll
            /\ missed' = IF poll.pc = "dozing" THEN missed \cup {o} ELSE missed
            /\ UNCHANGED res
    /\ UNCHANGED <<calls, buf, space, timer, plain, get_done, get_success, ret, sync,
                   mtx, appVars, clock, closed, mem, abandoned, misled, late>>

\* The point is added only now.
RegWait(o) ==
    /\ At(o, {"reg"}, "pushed")
    /\ Goes(o, "wait")
    /\ sync' = AddWait(sync, Dat[o], o)
    /\ UNCHANGED <<calls, res, buf, space, bq, poll, timer, plain, get_done, get_success, ret,
                   mtx, appVars, clock, closed, mem, history>>

RegResume(o) ==
    /\ At(o, {"reg"}, "wait") /\ o \in sync.woken
    /\ sync' = DelPoint(sync, Dat[o], o)
    /\ Returns(o, ret[Dat[o]])
    /\ UNCHANGED <<calls, buf, space, bq, poll, timer, plain, get_done, get_success, ret,
                   mtx, appVars, clock, closed, mem, history>>

-----------------------------------------------------------------------------
(* get_poll.                                                                *)

PollGoes(l) == poll' = [poll EXCEPT !.pc = l]
PollFrame == Runs /\ UNCHANGED <<calls, callVars, space, timer, mtx, appVars, clock, closed, mem>>

\* BQueue::pop tests for emptiness, sleeps, and is woken by a push.
PollTest ==
    /\ poll.pc = "test" /\ bq = <<>>
    /\ PollGoes("dozing")
    /\ PollFrame /\ UNCHANGED <<bq, plain, get_done, get_success, ret, sync, history>>

PollSleep ==
    /\ poll.pc = "dozing"
    /\ PollGoes("asleep")
    /\ PollFrame /\ UNCHANGED <<bq, plain, get_done, get_success, ret, sync, history>>

\* Mutant of PollPop: the flags are not reset.
PollPopNoReset ==
    /\ poll.pc = "test" /\ bq # <<>>
    /\ bq' = Tail(bq)
    /\ poll' = [pc |-> "loop", call |-> Head(bq), n |-> 0]
    /\ plain' = plain \cup {[call |-> Head(bq), pc |-> "get"]}
    /\ PollFrame /\ UNCHANGED <<get_done, get_success, ret, sync, history>>

\* A get is taken, the flags are reset and plain_get is started.
PollPop ==
    /\ poll.pc = "test" /\ bq # <<>>
    /\ bq' = Tail(bq)
    /\ poll' = [pc |-> "loop", call |-> Head(bq), n |-> 0]
    /\ get_done' = FALSE /\ get_success' = FALSE
    /\ plain' = plain \cup {[call |-> Head(bq), pc |-> "get"]}
    /\ PollFrame /\ UNCHANGED <<ret, sync, history>>

\* The loop ends when the flag is seen or the time is over.
PollLoop ==
    /\ poll.pc = "loop"
    /\ poll' = IF get_done \/ poll.n = MaxTick THEN [poll EXCEPT !.pc = "decide"]
                                              ELSE [poll EXCEPT !.n = @ + 1]
    /\ PollFrame /\ UNCHANGED <<bq, plain, get_done, get_success, ret, sync, history>>

\* Mutant of PollDecide: a get that was given up is not answered.
PollDecideSilent ==
    /\ poll.pc = "decide"
    /\ ret' = [ret EXCEPT ![Dat[poll.call]] = IF get_done /\ get_success THEN 0 ELSE 1]
    /\ abandoned' = IF get_done THEN abandoned ELSE abandoned \cup {poll.call}
    /\ IF get_done THEN PollGoes("notify") ELSE poll' = [pc |-> "test", call |-> NoCall, n |-> 0]
    /\ PollFrame /\ UNCHANGED <<bq, plain, get_done, get_success, sync, misled, late, missed>>

\* The flag is read again: what came meanwhile counts.  interrupt() does not
\* reach a thread inside dspaces_get.
PollDecide ==
    /\ poll.pc = "decide"
    /\ ret' = [ret EXCEPT ![Dat[poll.call]] = IF get_done /\ get_success THEN 0 ELSE 1]
    /\ abandoned' = IF get_done THEN abandoned ELSE abandoned \cup {poll.call}
    /\ PollGoes("notify")
    /\ PollFrame /\ UNCHANGED <<bq, plain, get_done, get_success, sync, misled, late, missed>>

PollNotify ==
    /\ poll.pc = "notify"
    /\ sync' \in Notify(sync, Dat[poll.call])
    /\ late' = IF pc[poll.call] = "pushed" THEN late \cup {poll.call} ELSE late
    /\ poll' = [pc |-> "test", call |-> NoCall, n |-> 0]
    /\ PollFrame /\ UNCHANGED <<bq, plain, get_done, get_success, ret, abandoned, misled, missed>>

Poll == PollTest \/ PollSleep \/ PollPop \/ PollLoop \/ PollDecide \/ PollNotify

-----------------------------------------------------------------------------
(* plain_get: the thread of one get.                                        *)

\* The calls that watch the flags.
Watching == {poll.call, mtx.get} \ {NoCall}
Misleads(p) == misled' = misled \cup (Watching \ {p.call})

\* dspaces_get returns: the caller's buffer is written, get_success is set ...
PlainGet(p) ==
    LET o == p.call
    IN  /\ p.pc = "get" /\ Runs
        /\ get_success' = (Dat[o] \in space)
        /\ buf' = IF Dat[o] \in space THEN [buf EXCEPT ![o] = Dat[o]] ELSE buf
        /\ plain' = (plain \ {p}) \cup {[p EXCEPT !.pc = "done"]}
        /\ Misleads(p)
        /\ UNCHANGED <<calls, pc, res, space, bq, poll, timer, get_done, ret, sync, mtx,
                       appVars, clock, closed, mem, abandoned, late, missed>>

\* ... and then get_done.
PlainDone(p) ==
    /\ p.pc = "done" /\ Runs
    /\ get_done' = TRUE
    /\ plain' = plain \ {p}
    /\ Misleads(p)
    /\ UNCHANGED <<calls, callVars, space, bq, poll, timer, get_success, ret, sync, mtx,
                   appVars, clock, closed, mem, abandoned, late, missed>>

-----------------------------------------------------------------------------
(* timed_get, under dspaces_get_mtx.                                        *)

TimedGet(o) ==
    /\ At(o, {"timed"}, "new") /\ mtx.get = NoCall
    /\ mtx' = [mtx EXCEPT !.get = o]
    /\ get_done' = FALSE /\ get_success' = FALSE
    /\ plain' = plain \cup {[call |-> o, pc |-> "get"]}
    /\ Goes(o, "loop")
    /\ UNCHANGED <<calls, res, buf, space, bq, poll, timer, ret, sync, appVars, clock, closed, mem, history>>

TimedLoop(o) ==
    /\ At(o, {"timed"}, "loop")
    /\ IF get_done \/ timer[o] = MaxTick
       THEN Goes(o, "decide") /\ UNCHANGED timer
       ELSE timer' = [timer EXCEPT ![o] = @ + 1] /\ UNCHANGED pc
    /\ UNCHANGED <<calls, res, buf, space, bq, poll, plain, get_done, get_success, ret, sync, mtx,
                   appVars, clock, closed, mem, history>>

TimedDecide(o) ==
    /\ At(o, {"timed"}, "decide")
    /\ Returns(o, IF get_done /\ get_success THEN 0 ELSE 1)
    /\ abandoned' = IF get_done THEN abandoned ELSE abandoned \cup {o}
    /\ mtx' = [mtx EXCEPT !.get = NoCall]
    /\ UNCHANGED <<calls, buf, space, pollVars, appVars, clock, closed, mem, misled, late, missed>>

-----------------------------------------------------------------------------
(* sync_put, under dspaces_sync_put_mtx, for its three callers.             *)

\* Damage, or the use of what is damaged, may end the process or stay unnoticed.
Damaged  == mem' \in {"damaged", "ended"}
MapUsed  == IF mem = "sound" THEN UNCHANGED mem ELSE Damaged
Overruns(o) == Kind[o] = "send" /\ MsgSize[o] = MaxMsg

\* BCClient::send copies the message and its end into MaxMsg bytes, so that a
\* message of just this size writes one byte too many.
BCSend(o) ==
    /\ At(o, {"send"}, "new")
    /\ IF MsgSize[o] > MaxMsg
       THEN Returns(o, 1) /\ UNCHANGED mem
       ELSE Goes(o, "put") /\ UNCHANGED res /\ (IF Overruns(o) THEN Damaged ELSE UNCHANGED mem)
    /\ UNCHANGED <<calls, buf, space, pollVars, mtx, appVars, clock, closed, history>>

DsPut(o) ==
    /\ At(o, {"put", "wput"}, "new") \/ At(o, {"send"}, "put")
    /\ mtx.put = NoCall
    /\ mtx' = [mtx EXCEPT !.put = o]
    /\ \E r \in {0, 1} : res' = [res EXCEPT ![o] = r]
    /\ Goes(o, "sync")
    /\ UNCHANGED <<calls, buf, space, pollVars, appVars, clock, closed, mem, history>>

\* dspaces_put_sync.  WADSDriver::put then tells the RIManager, if it can; send
\* frees its buffer.
DsPutSync(o) ==
    /\ At(o, {"put", "wput", "send"}, "sync")
    /\ mtx' = [mtx EXCEPT !.put = NoCall]
    /\ space' = IF res[o] = 0 THEN space \cup {Dat[o]} ELSE space
    /\ \/ /\ Kind[o] = "wput" /\ res[o] = 0
          /\ Goes(o, "asked")
          /\ ri' = [ri EXCEPT ![o].pc = "asked"]
          /\ UNCHANGED res
       \/ /\ Returns(o, IF Kind[o] = "wput" THEN 1 ELSE res[o])
          /\ UNCHANGED ri
    /\ IF Overruns(o) THEN Damaged ELSE UNCHANGED mem
    /\ UNCHANGED <<calls, buf, pollVars, wsync, ds_id, clock, closed, history>>

-----------------------------------------------------------------------------
(* WADSDriver: put, get and handle_ri_msg.                                  *)

App == {"wput", "wget"}
Point(o) == <<Kind[o], Dat[o]>>

\* The request is sent, or get fails.
WGet(o) ==
    /\ At(o, {"wget"}, "new")
    /\ \/ Goes(o, "asked") /\ ri' = [ri EXCEPT ![o].pc = "asked"] /\ UNCHANGED res
       \/ Returns(o, 1) /\ UNCHANGED ri
    /\ UNCHANGED <<calls, buf, space, pollVars, mtx, wsync, ds_id, clock, closed, mem, history>>

WWait(o) ==
    /\ At(o, App, "asked")
    /\ Goes(o, "wait")
    /\ wsync' = AddWait(wsync, Point(o), o)
    /\ UNCHANGED <<calls, res, buf, space, pollVars, mtx, ds_id, ri, clock, closed, mem, history>>

\* The answer, a site or -1, is noted under the data id; the RIManager's gets
\* end with the data in this site's DataSpaces.
RiAnswer(o) ==
    /\ ri[o].pc = "asked" /\ ~closed /\ Runs
    /\ \E a \in {-1, 1} :
          /\ ds_id' = [ds_id EXCEPT ![Dat[o]] = a]
          /\ ri' = [ri EXCEPT ![o] = [pc |-> "noted", ans |-> a]]
          /\ space' = IF a = 1 THEN space \cup {Dat[o]} ELSE space
    /\ MapUsed
    /\ UNCHANGED <<calls, callVars, pollVars, mtx, wsync, clock, closed, history>>

RiNotify(o) ==
    /\ ri[o].pc = "noted" /\ ~closed /\ Runs
    /\ wsync' \in Notify(wsync, Point(o))
    /\ late' = IF pc[o] = "asked" THEN late \cup {o} ELSE late
    /\ ri' = [ri EXCEPT ![o].pc = "done"]
    /\ UNCHANGED <<calls, callVars, space, pollVars, mtx, ds_id, clock, closed, mem, abandoned, misled, missed>>

WResume(o) ==
    /\ At(o, App, "wait") /\ o \in wsync.woken
    /\ wsync' = DelPoint(wsync, Point(o), o)
    /\ Goes(o, "look")
    /\ UNCHANGED <<calls, res, buf, space, pollVars, mtx, ds_id, ri, clock, closed, mem, history>>

\* The answer is looked up, by operator[], which enters a 0 where there is none.
WLook(o) ==
    /\ At(o, App, "look")
    /\ \E a \in IF mem = "sound" THEN {IF ds_id[Dat[o]] = NoEntry THEN 0 ELSE ds_id[Dat[o]]}
                                 ELSE {-1, 0, 1} :
          /\ ds_id' = [ds_id EXCEPT ![Dat[o]] = a]
          /\ IF a = -1 \/ Kind[o] = "wput"
             THEN Goes(o, "del") /\ res' = [res EXCEPT ![o] = IF a = -1 THEN 1 ELSE 0]
             ELSE Goes(o, "get") /\ UNCHANGED res
    /\ MapUsed
    /\ UNCHANGED <<calls, buf, space, pollVars, mtx, wsync, ri, clock, closed, history>>

\* DSDriver::get, up to three times; only after a success the answer is erased.
WTry(o) ==
    /\ At(o, {"wget"}, "get")
    /\ \/ /\ Dat[o] \in space
          /\ buf' = [buf EXCEPT ![o] = Dat[o]]
          /\ Goes(o, "del")
          /\ res' = [res EXCEPT ![o] = 0]
          /\ UNCHANGED timer
       \/ /\ Dat[o] \notin space
          /\ timer' = [timer EXCEPT ![o] = @ + 1]
          /\ IF timer[o] = 2 THEN Returns(o, 1) ELSE UNCHANGED <<pc, res>>
          /\ UNCHANGED buf
    /\ UNCHANGED <<calls, space, bq, poll, plain, get_done, get_success, ret, sync, mtx,
                   appVars, clock, closed, mem, history>>

\* thread_safe_map::del erases what find finds: nothing, if another call of the
\* datum has erased the answer since, and erase of end() is undefined.  A get that
\* has its data then sends GET_DONE, and fails if it cannot.
WDel(o) ==
    /\ At(o, App, "del")
    /\ IF mem = "sound" /\ ds_id[Dat[o]] # NoEntry
       THEN ds_id' = [ds_id EXCEPT ![Dat[o]] = NoEntry] /\ UNCHANGED mem
       ELSE Damaged /\ UNCHANGED ds_id
    /\ \E r \in {res[o]} \cup (IF Kind[o] = "wget" THEN {1} ELSE {}) : Returns(o, r)
    /\ UNCHANGED <<calls, buf, space, pollVars, mtx, wsync, ri, clock, closed, history>>

-----------------------------------------------------------------------------
(* Locks, timing and the end.                                               *)

\* lock_on_write and the like: refresh_last_lock_time.
Lock(t) ==
    /\ calls = {} /\ ~closed /\ Runs
    /\ clock' = [clock EXCEPT !.last = t, !.locked = t, !.at = t, !.diff = Zero]
    /\ UNCHANGED <<calls, callVars, space, pollVars, mtx, appVars, closed, mem, history>>

\* do_timing: get_inter_lock_time.
DoTiming(t) ==
    LET d == timeval_subtract(t, clock.last)
    IN  /\ calls = {} /\ ~closed /\ Runs
        /\ clock' = [clock EXCEPT !.last = d.y, !.diff = d.r, !.at = t]
        /\ UNCHANGED <<calls, callVars, space, pollVars, mtx, appVars, closed, mem, history>>

\* close, and the destructor's interrupt: made when the process has no call
\* left to make.
Close ==
    /\ ~closed /\ Runs /\ calls # {} /\ \A o \in calls : pc[o] = "ret"
    /\ closed' = TRUE
    /\ UNCHANGED <<calls, callVars, space, pollVars, mtx, appVars, clock, mem, history>>

CallStep(o) ==
    \/ RegGet(o) \/ RegWait(o) \/ RegResume(o)
    \/ TimedGet(o) \/ TimedLoop(o) \/ TimedDecide(o)
    \/ BCSend(o) \/ DsPut(o) \/ DsPutSync(o)
    \/ WGet(o) \/ WWait(o) \/ WResume(o) \/ WLook(o) \/ WTry(o) \/ WDel(o)
    \/ RiAnswer(o) \/ RiNotify(o)

Next ==
    \/ Poll
    \/ Close
    \/ \E o \in Call : CallStep(o)
    \/ \E p \in plain : PlainGet(p) \/ PlainDone(p)
    \/ \E t \in Now : Lock(t) \/ DoTiming(t)

\* get_poll and the threads that hand it a get run; dspaces_get is not assumed
\* to return.
Registered == {o \in Call : Kind[o] = "reg"}
Spec == /\ Init /\ [][Next]_vars
        /\ WF_vars(Poll)
        /\ \A o \in Registered : WF_vars(RegWait(o) \/ RegResume(o))

-----------------------------------------------------------------------------
(* Properties.                                                              *)

TypeOK ==
    /\ res \in [Call -> {0, 1}] /\ buf \in [Call -> Data \cup {NoData}]
    /\ space \subseteq Data
    /\ poll.pc \in {"test", "dozing", "asleep", "loop", "decide", "notify"}
    /\ ret \in [Data -> {0, 1}]
    /\ sync \in SyncerType(Data, Call)
    /\ wsync \in SyncerType(App \X Data, Call)
    /\ ds_id \in [Data -> {-1, 0, 1, NoEntry}]
    /\ mem \in {"sound", "damaged", "ended"}
    /\ mtx \in [put : Call \cup {NoCall}, get : Call \cup {NoCall}]

\* Another call of the same process names the same data, and so shares its
\* point, its result or its answer.
Shared(o) == \E c \in calls \ {o} : Dat[c] = Dat[o]

\* Another call of WADSDriver's, at that.
Alike(o) == \E c \in calls \ {o} : Kind[c] \in App /\ Dat[c] = Dat[o]

\* A get that reports success has its data in the caller's buffer, unless the
\* flags were set by a thread given up earlier, or another call of the same
\* data was answered.
SuccessMeansData ==
    \A o \in calls : pc[o] = "ret" /\ res[o] = 0 /\ Kind[o] \in {"reg", "timed"} =>
        buf[o] = Dat[o] \/ (o \in misled /\ abandoned # {}) \/ Shared(o)

\* The buffer a request points to lives on its caller's stack: whoever is in
\* the queue or at get_poll still waits, unless it shared another's answer.
RequestOutlived ==
    \A o \in calls : pc[o] = "ret" /\ Kind[o] = "reg" =>
        ((\A i \in DOMAIN bq : bq[i] # o) /\ poll.call # o) \/ Shared(o)

\* A buffer is written after its caller has returned, and DataSpaces used after
\* dspaces_finalize, only by gets that were given up or misled by such a one.
LateOnlyIfAbandoned ==
    \A p \in plain : (pc[p.call] = "ret" /\ p.pc = "get") \/ closed =>
        p.call \in abandoned \/ (p.call \in misled /\ abandoned # {}) \/ Shared(p.call)

\* WADSDriver::get goes on to DataSpaces, and put reports success, only when
\* the RIManager has said so, unless two calls of the same data overlap.
AcceptedMeansAnswered ==
    \A o \in calls : Kind[o] \in App /\ (pc[o] = "get" \/ (pc[o] = "ret" /\ res[o] = 0)) =>
        ri[o].ans = 1 \/ Shared(o)

\* Memory is damaged only by a message of exactly max_msg_size, or by two of
\* WADSDriver's calls of one datum that overlap, the one erasing the answer of the
\* other: a call that is alone with its datum finds what it erases.
MemoryKept ==
    mem # "sound" => \/ \E o \in calls : Overruns(o)
                     \/ \E o \in calls : Kind[o] \in App /\ Alike(o)

Cells(b) == {c \in (0 .. Gdim[1]) \X (0 .. Gdim[2]) :
                \A i \in DOMAIN Gdim : b.l[i] <= c[i] /\ c[i] <= b.u[i]}

\* The buffer of a wa_put has room for exactly the cells between its bounds,
\* as long as an int can count them.
LengthExact ==
    \A o \in calls : Kind[o] = "reg" /\ pc[o] # "new" =>
        LET n == Cardinality(Cells(Box[o]))
        IN  /\ pc[o] # "ret" => get_data_length(Box[o]) # 0
            /\ n <= IntMax /\ Box[o].u[1] <= Gdim[1] /\ Box[o].u[2] <= Gdim[2]
                 => get_data_length(Box[o]) = n

\* get_inter_lock_time is the time since the last lock, in full seconds and
\* the rest ("tv_usec is certainly positive"; it may be a full second), though
\* the subtraction rewrites last_lock_time every time.
InterLockExact ==
    LET Total(t) == t.s * Usec + t.u
    IN  /\ clock.diff.u \in 0 .. Usec
        /\ Total(clock.diff) = Total(clock.at) - Total(clock.locked)

\* A thread of a get that was given up cannot stop the others: every get handed
\* to get_poll returns, whether or not dspaces_get ever does, unless its
\* notification or its push was lost, or another call took its answer.
GetReturns ==
    \A o \in Registered : pc[o] = "pushed" ~>
        pc[o] = "ret" \/ o \in late \/ missed # {} \/ Shared(o) \/ mem # "sound"

\* Callers, get_poll and the threads it has given up share flags, answers and
\* buffers: while the memory is sound a success has its data and its own answer, and
\* nobody uses a buffer its owner has left; and it is sound; with the exceptions that
\* the parts name.
GetsSound ==
    /\ TypeOK
    /\ MemoryKept
    /\ mem = "sound" =>
          /\ RequestOutlived
          /\ SuccessMeansData
          /\ LateOnlyIfAbandoned
          /\ AcceptedMeansAnswered

\* The two computations that are done by hand: how many cells a box has, and how
\* much time has passed since the last lock.
SizesAndTimes == LengthExact /\ InterLockExact
=============================================================================
