---------------------------- MODULE MCMSRDriver ----------------------------
(***************************************************************************)
(* MSRDriver for TLC: a queue of up to four places instead of 32.          *)
(***************************************************************************)
EXTENDS MSRDriver

Do(c, r, v) == [cmd |-> c, reg |-> r, val |-> v]

MCCommand == { Do("PMC_ENABLE", 0, 0), Do("PMC_DISABLE", 0, 0),
               Do("MSR_WRITE", 1, 1), Do("MSR_READ", 1, 0), Do("PROC_SET", 0, 1) }

\* A CMSRInOutQue with the entries q: after them the MSR_STOPs its constructor
\* wrote, one place more than the driver copies.
QueueOf(q) ==
  [put |-> q,
   memory |-> [k \in 0 .. MaxEntries |->
                 IF k < Len(q) THEN q[k + 1] ELSE Do("MSR_STOP", 0, 0)]]

\* Every queue that leaves a place free.
MCQueueCall == { QueueOf(q) : q \in UNION { [1 .. n -> MCCommand] : n \in 1 .. MaxEntries - 1 } }

MCRubbish == { Do("MSR_STOP", 0, 0), Do("MSR_WRITE", 0, 1), Do("PMC_DISABLE", 0, 0) }

=============================================================================
