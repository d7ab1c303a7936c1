---------------------------- MODULE CostTracker ----------------------------
(***************************************************************************)
(* The LLM cost tracker: calls are counted in a buffer, and every 15 s what *)
(* is buffered is added to the totals in Redis.  Records differ only in     *)
(* what they add, so they are counted.                                      *)
(***************************************************************************)
EXTENDS Naturals

CONSTANTS MaxRecords   \* bound: recorded calls

ASSUME CostAssumption == MaxRecords \in Nat

VARIABLES
  buffer,    \* records in _buffer
  taken,     \* records the running flush took out of it
  existing,  \* the total the running flush read
  flushing,  \* where flush is
  total,     \* calls in polis:llm_costs
  recorded,  \* history: record was called
  died,      \* history: records that died with the kernel
  twice      \* history: records stored by a flush that failed afterwards

costVars == <<buffer, taken, existing, flushing, total, recorded, died, twice>>

CostTypeOK ==
  /\ buffer \in Nat /\ taken \in Nat /\ existing \in Nat /\ total \in Nat
  /\ recorded \in 0 .. MaxRecords /\ died \in Nat /\ twice \in Nat
  /\ flushing \in {"sleeping", "reading", "writing", "closing"}

CostInit ==
  /\ buffer = 0 /\ taken = 0 /\ existing = 0 /\ total = 0
  /\ recorded = 0 /\ died = 0 /\ twice = 0
  /\ flushing = "sleeping"

Record ==
  /\ recorded < MaxRecords
  /\ recorded' = recorded + 1 /\ buffer' = buffer + 1
  /\ UNCHANGED <<taken, existing, flushing, total, died, twice>>

\* records, self._buffer = self._buffer[:], []
FlushStarts ==
  /\ flushing = "sleeping" /\ buffer > 0
  /\ taken' = buffer /\ buffer' = 0
  /\ flushing' = "reading"
  /\ UNCHANGED <<existing, total, recorded, died, twice>>

ReadTotal ==
  /\ flushing = "reading" /\ flushing' = "writing"
  /\ existing' = total
  /\ UNCHANGED <<buffer, taken, total, recorded, died, twice>>

WriteTotal ==
  /\ flushing = "writing" /\ flushing' = "closing"
  /\ total' = existing + taken
  /\ UNCHANGED <<buffer, taken, existing, recorded, died, twice>>

FlushEnds ==
  /\ flushing = "closing" /\ flushing' = "sleeping"
  /\ taken' = 0 /\ existing' = 0
  /\ UNCHANGED <<buffer, total, recorded, died, twice>>

\* Mutant: the buffer is set back instead of extended.
SetBack == taken

Requeued == buffer + taken

\* get, set or aclose raises; a set may have been carried out all the same.
FlushFails ==
  /\ flushing # "sleeping" /\ flushing' = "sleeping"
  /\ buffer' = Requeued /\ taken' = 0 /\ existing' = 0
  /\ \/ flushing # "closing" /\ UNCHANGED <<total, twice>>
     \/ flushing = "writing" /\ total' = existing + taken /\ twice' = twice + taken
     \/ flushing = "closing" /\ twice' = twice + taken /\ UNCHANGED total
  /\ twice' <= MaxRecords
  /\ UNCHANGED <<recorded, died>>

KernelDies ==
  /\ buffer' = 0 /\ taken' = 0 /\ existing' = 0 /\ flushing' = "sleeping"
  /\ died' = died + buffer + (IF flushing = "closing" THEN 0 ELSE taken)
  /\ UNCHANGED <<total, recorded, twice>>

CostNext ==
  Record \/ FlushStarts \/ ReadTotal \/ WriteTotal \/ FlushEnds \/ FlushFails \/ KernelDies

----------------------------------------------------------------------------
\* Every recorded call is in exactly one place, however records and flushes
\* overlap: stored, in a flush, or buffered; or it died with the kernel, or
\* was stored by a flush that then failed and will be stored again.
CostsAccounted ==
  recorded + twice = total + buffer + died + (IF flushing = "closing" THEN 0 ELSE taken)

=============================================================================
