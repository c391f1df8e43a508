---------------------------- MODULE MCApiServer -----------------------------
(* An instance of ApiServer for TLC.  The limit is 19 requests per minute   *)
(* (a burst of 1, a request every 3.2 seconds).  With the limiter, three    *)
(* clients at two addresses ask about jobs that are not there; without it,  *)
(* two of them read the jobs that are created meanwhile.                    *)
EXTENDS ApiServer, TLC

CONSTANTS c1, c2, c3

MCIPs == {"ip1", "ip2"}
MCIPOf == c1 :> "ip1" @@ c2 :> "ip1" @@ c3 :> "ip2"
MCOddRanges == {<<0, 0>>, <<-1, 1>>, <<1, -1>>}
MCConfigs == {[driver |-> "memory", limited |-> TRUE],
              [driver |-> "memory", limited |-> FALSE],
              [driver |-> "pgx", limited |-> FALSE],
              [driver |-> "gorm", limited |-> FALSE]}
MCAsking == TRUE :> {c1, c2, c3} @@ FALSE :> {c1, c2}
MCMaxJobs == TRUE :> 0 @@ FALSE :> 2
Interchangeable == Permutations(Jobs)
=============================================================================
