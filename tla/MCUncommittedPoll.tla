-------------------------- MODULE MCUncommittedPoll --------------------------
(* Small instances of UncommittedPoll for TLC: sessions that share a            *)
(* directory, and sessions in two directories of one repository.             *)
EXTENDS UncommittedPoll
CONSTANTS i1, i2, s1, s2, d1, d2, g1, g2, x, y
CwdEach   == [s \in PollSessions |-> IF s = s1 THEN d1 ELSE d2]
CwdSame   == [s \in PollSessions |-> d1]
GitSame   == [d \in Dirs |-> g1]
=============================================================================
