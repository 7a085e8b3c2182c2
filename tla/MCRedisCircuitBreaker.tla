----------------------- MODULE MCRedisCircuitBreaker -----------------------
(* Two processes, one of them with two requests.                           *)
EXTENDS RedisCircuitBreaker

CONSTANTS r1, r2, r3, p1, p2

MCRequests == {r1, r2, r3}
MCProcesses == {p1, p2}
MCHome == [r \in MCRequests |-> IF r = r3 THEN p2 ELSE p1]
=============================================================================
