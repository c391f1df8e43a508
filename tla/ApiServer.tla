------------------------------ MODULE ApiServer ------------------------------
(***************************************************************************)
(* The reading side of the API: a request passes the rate limiter, reaches *)
(* GetJob or ListJobs, and these read the job table of one of the three    *)
(* stores while other processes insert jobs and settle them.               *)
(*                                                                         *)
(* The memory store holds its lock for a whole call.  The two Postgres     *)
(* stores list jobs with two statements, a COUNT and a SELECT, and stamp   *)
(* created_at before they insert the row.                                  *)
(***************************************************************************)
EXTENDS RateLimiter, FiniteSetsExt

CONSTANTS
  Jobs, Clients,
  IPOf,        \* IPOf[c]: the address client c connects from
  PageSize,    \* the limit of a client that walks through all pages
  OddRanges,   \* the <<limit, offset>> of lists outside of a walk
  Walkers,     \* the clients that walk through all pages; others ask once
  Configs,     \* the configurations to check
  MaxRequests, \* bound: requests sent
  Asking,      \* bound: Asking[limited] are the clients that send requests
  MaxJobs,     \* bound: at most MaxJobs[limited] jobs are created
  MaxTime,     \* bound: seconds that pass
  MaxFaults    \* bound: calls of the store that fail

ASSUME ApiServerAssumption ==
  /\ IPOf \in [Clients -> IPs]
  /\ IsFiniteSet(Jobs)
  /\ PageSize \in Nat \ {0}
  /\ OddRanges \subseteq Int \X Int
  /\ Walkers \subseteq Clients
  /\ Configs \subseteq [driver : {"memory", "pgx", "gorm"}, limited : BOOLEAN]
  /\ {MaxRequests, MaxTime, MaxFaults} \subseteq Nat
  /\ Asking \in [BOOLEAN -> SUBSET Clients]
  /\ MaxJobs \in [BOOLEAN -> Nat]

VARIABLES
  driver,    \* the store main opened
  limited,   \* cfg.EnableRateLimiter
  clock,     \* the newest created_at given out
  stamped,   \* stamped[j]: created_at of a row about to be inserted
  table,     \* table[j]: the row of job j
  req,       \* req[c]: the request of client c in progress
  walk,      \* walk[c]: how far client c is in listing all jobs
  answer,    \* history: the last answer client c got
  sent,      \* requests sent, of MaxRequests
  faults     \* calls of the store that failed, of MaxFaults

configVars == <<driver, limited>>
tableVars == <<clock, stamped, table>>
clientVars == <<req, walk, answer>>
boundVars == <<sent, faults>>
vars == <<limiterVars, configVars, tableVars, clientVars, boundVars>>

Status == {"QUEUED", "SUCCEEDED"}
AnyStatus == "any"
Row == [created : Nat, status : Status]
NoRow == [created |-> -1, status |-> "ABSENT"]

Filter == {AnyStatus, "QUEUED"}
Query == [job : Jobs, filter : {AnyStatus}, limit : {0}, offset : {0}]
           \cup [job : {"none"}, filter : Filter, limit : Int, offset : Int]
RequestPC == {"limit", "allow", "handle", "select", "panicked"}
Idle == [pc |-> "idle"]

NoWalk == [pc |-> "none"]
Walk == [pc : {"on", "done"}, filter : Filter, next : Nat,
         seen : SUBSET Jobs, due : SUBSET Jobs, moved : BOOLEAN]

NoAnswer == [code |-> 0]

TypeOK ==
  /\ LimiterTypeOK
  /\ [driver |-> driver, limited |-> limited] \in Configs
  /\ clock \in Nat
  /\ stamped \in [Jobs -> 0 .. clock \cup {-1}]
  /\ table \in [Jobs -> Row \cup {NoRow}]
  /\ req \in [Clients ->
              {Idle} \cup [pc : RequestPC, query : Query, total : Nat]]
  /\ walk \in [Clients -> Walk \cup {NoWalk}]
  /\ \A c \in Clients : answer[c].code \in {0, 200, 404, 429, 500}
  /\ {sent, faults} \subseteq Nat

-----------------------------------------------------------------------------
(* The job table. *)

Stored == {j \in Jobs : table[j] # NoRow}
Matching(filter) ==
  {j \in Stored : filter = AnyStatus \/ table[j].status = filter}

(* Mistake: the rows come in no order. *)
Orders_None(S) ==
  {s \in [1 .. Cardinality(S) -> S] :
     \A i, k \in DOMAIN s : i < k => s[i] # s[k]}

(* ORDER BY created_at DESC; the order of equal times is anybody's guess.  *)
Orders(S) ==
  {s \in [1 .. Cardinality(S) -> S] :
     \A i, k \in DOMAIN s :
       i < k => s[i] # s[k] /\ table[s[i]].created >= table[s[k]].created}

Stamp(j) ==
  /\ stamped[j] = -1
  /\ Cardinality({i \in Jobs : stamped[i] # -1}) < MaxJobs[limited]
  /\ clock' \in {clock, clock + 1}
  /\ stamped' = [stamped EXCEPT ![j] = clock']

(* The memory store stamps the row with its lock held. *)
StampRow(j) ==
  /\ driver # "memory"
  /\ Stamp(j)
  /\ UNCHANGED <<limiterVars, configVars, table, clientVars, boundVars>>

InsertRow(j) ==
  /\ table[j] = NoRow
  /\ IF driver = "memory" THEN Stamp(j)
                          ELSE stamped[j] >= 0 /\ UNCHANGED <<clock, stamped>>
  /\ table' = [table EXCEPT
                 ![j] = [created |-> stamped'[j], status |-> "QUEUED"]]
  /\ UNCHANGED <<limiterVars, configVars, clientVars, boundVars>>

(* A worker settles job j; walks that filter by status lose it. *)
SettleRow(j) ==
  /\ table[j].status = "QUEUED"
  /\ table' = [table EXCEPT ![j].status = "SUCCEEDED"]
  /\ walk' = [c \in Clients |->
                IF walk[c].pc = "on" /\ walk[c].filter = "QUEUED"
                  THEN [walk[c] EXCEPT !.due = @ \ {j}, !.moved = TRUE]
                  ELSE walk[c]]
  /\ UNCHANGED <<limiterVars, configVars, clock, stamped, req, answer,
                 boundVars>>

-----------------------------------------------------------------------------
(* One page of the ordered rows s. *)

(* Mistake: the limit is compared with all rows. *)
memoryPage_Total(s, limit, offset) ==
  LET total == Len(s)
      start == IF offset > total THEN total ELSE offset
      n == IF limit <= 0 \/ limit > total THEN total - start ELSE limit
      panics == start < 0 \/ start + n > total
  IN  [panics |-> panics,
       page |-> IF panics THEN <<>> ELSE SubSeq(s, start + 1, start + n)]

(* Only the upper end of the offset is checked: a negative one panics. *)
memoryPage(s, limit, offset) ==
  LET total == Len(s)
      start == IF offset > total THEN total ELSE offset
      n == IF limit <= 0 \/ limit > total - start THEN total - start ELSE limit
      panics == start < 0 \/ start + n > total
  IN  [panics |-> panics,
       page |-> IF panics THEN <<>> ELSE SubSeq(s, start + 1, start + n)]

DefaultLimit(limit) == IF limit = 0 THEN 50 ELSE limit

(* LIMIT and OFFSET of one SELECT, both not negative. *)
Window(s, limit, offset) ==
  [i \in 1 .. Min({limit, Max({0, Len(s) - offset})}) |-> s[offset + i]]

(* Postgres refuses a negative LIMIT or OFFSET. *)
pgxPage(s, limit, offset) ==
  [fails |-> DefaultLimit(limit) < 0 \/ offset < 0,
   page |-> Window(s, Max({0, DefaultLimit(limit)}), Max({0, offset}))]

(* GORM leaves a negative LIMIT or OFFSET out of the statement. *)
gormPage(s, limit, offset) ==
  [fails |-> FALSE,
   page |-> Window(s, IF limit < 0 THEN Len(s) ELSE DefaultLimit(limit),
                      IF offset < 0 THEN 0 ELSE offset)]

sqlPage(s, limit, offset) ==
  IF driver = "pgx" THEN pgxPage(s, limit, offset)
                    ELSE gormPage(s, limit, offset)
-----------------------------------------------------------------------------
(* Requests. *)

IP(c) == IPOf[c]
At(c, pc) == req[c].pc = pc
Go(c, pc) == req' = [req EXCEPT ![c].pc = pc]
Asked(c) == req[c].query

Send(c, query) ==
  /\ req[c] = Idle
  /\ c \in Asking[limited]
  /\ sent < MaxRequests
  /\ sent' = sent + 1
  /\ req' = [req EXCEPT ![c] =
               [pc |-> IF limited THEN "limit" ELSE "handle",
                query |-> query, total |-> 0]]
  /\ answer' = [answer EXCEPT ![c] = NoAnswer]
  /\ UNCHANGED <<limiterVars, configVars, tableVars, faults>>

AskJob(c, j) ==
  /\ Send(c, [job |-> j, filter |-> AnyStatus, limit |-> 0, offset |-> 0])
  /\ UNCHANGED walk

AskOddRange(c) ==
  /\ \E r \in OddRanges :
       Send(c, [job |-> "none", filter |-> AnyStatus,
                limit |-> r[1], offset |-> r[2]])
  /\ UNCHANGED walk

BeginWalk(c, filter) ==
  /\ walk[c] = NoWalk
  /\ Send(c, [job |-> "none", filter |-> filter,
              limit |-> PageSize, offset |-> 0])
  /\ walk' = [walk EXCEPT ![c] =
                [pc |-> "on", filter |-> filter, next |-> 0, seen |-> {},
                 due |-> Matching(filter), moved |-> FALSE]]

AskPage(c) ==
  /\ walk[c].pc = "on"
  /\ Send(c, [job |-> "none", filter |-> walk[c].filter,
              limit |-> PageSize, offset |-> walk[c].next])
  /\ UNCHANGED walk

(* An answer without a page; a walk will ask for the same page again. *)
Answer(c, code) ==
  /\ req' = [req EXCEPT ![c] = Idle]
  /\ answer' = [answer EXCEPT ![c] = [code |-> code, query |-> Asked(c)]]

(* A page; a walk goes on until one is not full. *)
AnswerPage(c, page, total) ==
  LET full == Len(page) >= PageSize IN
  /\ req' = [req EXCEPT ![c] = Idle]
  /\ answer' = [answer EXCEPT ![c] =
                  [code |-> 200, query |-> Asked(c),
                   listed |-> Len(page), total |-> total]]
  /\ walk' =
       IF /\ walk[c].pc = "on"
          /\ Asked(c).limit = PageSize /\ Asked(c).offset = walk[c].next
          /\ Asked(c).filter = walk[c].filter
         THEN [walk EXCEPT ![c].next = @ + PageSize,
                           ![c].seen = @ \cup {page[i] : i \in DOMAIN page},
                           ![c].pc = IF full THEN "on" ELSE "done"]
         ELSE walk

(* Middleware: the rate limiter, and what Recovery makes of a panic. *)

Limit(c) ==
  /\ At(c, "limit")
  /\ getLimiter(IP(c))
  /\ Go(c, "allow")
  /\ UNCHANGED <<configVars, tableVars, walk, answer, boundVars>>

Admit(c) ==
  /\ At(c, "allow")
  /\ Allow(IP(c))
  /\ Go(c, "handle")
  /\ UNCHANGED <<configVars, tableVars, walk, answer, boundVars>>

Reject(c) ==
  /\ At(c, "allow")
  /\ Refuse(IP(c))
  /\ Answer(c, 429)
  /\ UNCHANGED <<configVars, tableVars, walk, boundVars>>

Recover(c) ==
  /\ At(c, "panicked")
  /\ Answer(c, 500)
  /\ UNCHANGED <<limiterVars, configVars, tableVars, walk, boundVars>>

(* Handlers. *)

(* The pgx store does not recognise the driver's "no rows". *)
UnknownJobCode == IF driver = "pgx" THEN 500 ELSE 404

GetJob(c) ==
  LET j == Asked(c).job IN
  /\ At(c, "handle")
  /\ j # "none"
  /\ Answer(c, IF table[j] # NoRow THEN 200 ELSE UnknownJobCode)
  /\ UNCHANGED <<limiterVars, configVars, tableVars, walk, boundVars>>

ListJobs_memory(c) ==
  /\ At(c, "handle")
  /\ Asked(c).job = "none"
  /\ driver = "memory"
  /\ \E s \in Orders(Matching(Asked(c).filter)) :
       LET result == memoryPage(s, Asked(c).limit, Asked(c).offset) IN
       IF result.panics THEN Go(c, "panicked") /\ UNCHANGED <<walk, answer>>
                        ELSE AnswerPage(c, result.page, Len(s))
  /\ UNCHANGED <<limiterVars, configVars, tableVars, boundVars>>

CountJobs(c) ==
  /\ At(c, "handle")
  /\ Asked(c).job = "none"
  /\ driver # "memory"
  /\ req' = [req EXCEPT ![c].pc = "select",
                        ![c].total = Cardinality(Matching(Asked(c).filter))]
  /\ UNCHANGED <<limiterVars, configVars, tableVars, walk, answer, boundVars>>

(* Mistake: the total is read after the page. *)
SelectJobs_CountsLast(c) ==
  /\ At(c, "select")
  /\ \E s \in Orders(Matching(Asked(c).filter)), extra \in 0 .. 1 :
       LET result == sqlPage(s, Asked(c).limit, Asked(c).offset) IN
       IF result.fails THEN Answer(c, 500) /\ UNCHANGED walk
                       ELSE AnswerPage(c, result.page, Len(s) + extra)
  /\ UNCHANGED <<limiterVars, configVars, tableVars, boundVars>>

SelectJobs(c) ==
  /\ At(c, "select")
  /\ \E s \in Orders(Matching(Asked(c).filter)) :
       LET result == sqlPage(s, Asked(c).limit, Asked(c).offset) IN
       IF result.fails THEN Answer(c, 500) /\ UNCHANGED walk
                       ELSE AnswerPage(c, result.page, req[c].total)
  /\ UNCHANGED <<limiterVars, configVars, tableVars, boundVars>>

(* A statement fails, for a reason that is not the request's. *)
StoreFails(c) ==
  /\ faults < MaxFaults
  /\ faults' = faults + 1
  /\ driver # "memory"
  /\ req[c].pc \in {"handle", "select"}
  /\ Answer(c, 500)
  /\ UNCHANGED <<limiterVars, configVars, tableVars, walk, sent>>
-----------------------------------------------------------------------------
Init ==
  /\ LimiterInit
  /\ \E config \in Configs :
       driver = config.driver /\ limited = config.limited
  /\ clock = 0
  /\ stamped = [j \in Jobs |-> -1]
  /\ table = [j \in Jobs |-> NoRow]
  /\ req = [c \in Clients |-> Idle]
  /\ walk = [c \in Clients |-> NoWalk]
  /\ answer = [c \in Clients |-> NoAnswer]
  /\ sent = 0
  /\ faults = 0

TimePasses ==
  /\ limited
  /\ now < MaxTime
  /\ Tick
  /\ UNCHANGED <<configVars, tableVars, clientVars, boundVars>>

Ask(c) ==
  IF c \in Walkers THEN AskPage(c) \/ \E f \in Filter : BeginWalk(c, f)
                   ELSE AskOddRange(c) \/ \E j \in Jobs : AskJob(c, j)

Serve(c) ==
  \/ Limit(c) \/ Admit(c) \/ Reject(c) \/ Recover(c)
  \/ GetJob(c) \/ ListJobs_memory(c) \/ CountJobs(c) \/ SelectJobs(c)
  \/ StoreFails(c)

Next ==
  \/ TimePasses
  \/ \E j \in Jobs : StampRow(j) \/ InsertRow(j) \/ SettleRow(j)
  \/ \E c \in Clients : Ask(c) \/ Serve(c)

Spec == Init /\ [][Next]_vars
-----------------------------------------------------------------------------
(* Properties. *)

ListAnswered(c) == answer[c].code = 200 /\ answer[c].query.job = "none"
Proper(query) == query.limit > 0 /\ query.offset >= 0

(***************************************************************************)
(* A page of all jobs that is not full reaches the total it comes with:    *)
(* nobody is told of jobs behind the last page.  It depends on the COUNT   *)
(* being made before the SELECT, as jobs are inserted between the two.     *)
(***************************************************************************)
ShortPageReachesTotal ==
  \A c \in Clients :
    LET a == answer[c] IN
    /\ ListAnswered(c) /\ Proper(a.query) /\ a.query.filter = AnyStatus
    /\ a.listed < a.query.limit
    => a.query.offset + a.listed >= a.total

(***************************************************************************)
(* A client that asked for page after page has seen every job that was     *)
(* there from the start, although rows are inserted while it asks, except  *)
(* a job created at the same time as another one; with a status filter,    *)
(* unless some job left the status in between.                             *)
(***************************************************************************)
Unique(j) == \A i \in Stored \ {j} : table[i].created # table[j].created
WalkSkipsNothing ==
  \A c \in Clients :
    walk[c].pc = "done" /\ ~walk[c].moved
      => \A j \in walk[c].due : Unique(j) => j \in walk[c].seen

(***************************************************************************)
(* A request fails only when a statement of its own failed, for a negative *)
(* offset (memory, pgx) or a negative limit (pgx), or, with pgx, for a job *)
(* that is not stored when it is looked up: the API reference has a 404    *)
(* there.  A job that is stored is found whatever it is asked with, and    *)
(* GORM never fails.                                                       *)
(***************************************************************************)
Explained(query) ==
  \/ driver = "memory" /\ query.offset < 0
  \/ /\ driver = "pgx"
     /\ \/ query.limit < 0
        \/ query.offset < 0
        \/ query.job # "none" /\ table[query.job] = NoRow
FailuresExplained ==
  [][\A c \in Clients :
       answer'[c] # answer[c] /\ answer'[c].code = 500 /\ faults' = faults
         => Explained(Asked(c))]_vars

(***************************************************************************)
(* An address is refused only when one more request would exceed its own   *)
(* burst and rate: what other addresses send takes nothing from it.        *)
(***************************************************************************)
RefusedOnlyOverRate ==
  [][\A c \in Clients :
       At(c, "allow") /\ answer'[c].code = 429
         => ~WithinRate(Append(admitted[IP(c)], now))]_vars

(***************************************************************************)
(* The three stores cut the same page out of the same rows, so the choice  *)
(* of the store cannot change what a request with a positive limit and an  *)
(* offset that is not negative lists.  Here one past the number of rows,   *)
(* from where on every limit and every offset gives the same page.         *)
(***************************************************************************)
SamePage(s, limit, offset) ==
  LET page == memoryPage(s, limit, offset)
  IN  /\ ~page.panics
      /\ page.page = pgxPage(s, limit, offset).page
      /\ page.page = gormPage(s, limit, offset).page
StoresAgree ==
  \A s \in Orders(Stored) :
    \A limit \in 1 .. Len(s) + 1, offset \in 0 .. Len(s) + 1 :
      SamePage(s, limit, offset)
=============================================================================
