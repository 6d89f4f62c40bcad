------------------------------ MODULE MCMonitor ------------------------------
(***************************************************************************)
(* Monitor composed with Client, which justifies that Monitor takes what   *)
(* it fetches for the answer of infod, or for none.                        *)
(***************************************************************************)
EXTENDS Monitor, Client

AnyFetchedExactly ==
  \A alive \in Answers : \A fsize \in [DOMAIN alive -> Fsizes] : FetchesExactly(alive, fsize)

\* Of whatever infod knows, the monitor fetches everything or nothing and then
\* sees each node once, in the order of the vector: however the answer was cut
\* on its way, wherever it broke off, whatever signals came (infolib.c:417-519,
\* info_iter.c:75-95); a header and statistics cut in pieces apart, which the
\* code puts in the wrong place (comm.c:1083, infolib.c:533).
FetchedExactly == infod # Down => AnyFetchedExactly
==============================================================================
