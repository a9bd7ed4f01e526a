---------------------------- MODULE MCRedisQueue ----------------------------
(* An instance of RedisQueue for TLC.                                        *)
EXTENDS RedisQueue

MCJobKeys == {"k", NoJobKey}

\* Two deliveries under one key, the second maybe without.
MCOffers == <<{<<"k", 2>>}, {<<"k", 1>>, <<NoJobKey, 1>>}>>

\* The first may be replayed.
MCRetries == <<1, 0>>
=============================================================================
