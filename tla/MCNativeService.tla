-------------------------- MODULE MCNativeService --------------------------
EXTENDS NativeService, TLC

CONSTANTS o1, o2, h1, prof

\* Both owners ask for the same profile; the second may ask to resume the
\* thread of the first; the helper serves the first one's lease.
OneProfile  == [o \in {o1, o2} |-> prof]
OneHelper   == h1 :> o1
ResumeFirst == [o \in {o1, o2} |-> o1]
=============================================================================
