----------------------------- MODULE MCSamples -----------------------------
(***************************************************************************)
(* The path of the samples for TLC: InputRing between the device and the   *)
(* demodulator, IqCapture beside it, WorkerPool behind it.  The three      *)
(* share no state (each copies what it is handed), so that a behaviour is  *)
(* one of them, and the others rest.                                       *)
(*                                                                         *)
(* A ring of capacity 6 holds two pairs and an odd float that must stay    *)
(* empty; MaxRead = 4 takes all of them and wraps, and more floats than    *)
(* the capacity drive both indices round.                                  *)
(***************************************************************************)
EXTENDS InputRing, IqCapture, WorkerPool

\* CU8 in blocks of two samples; CU8 under a limit that is odd; and a format
\* that drops a partial sample, under a limit inside a sample
Unlimited == [cu8 |-> TRUE, align |-> 2, block |-> 4, max |-> 0]
OddLimit == [cu8 |-> TRUE, align |-> 2, block |-> 2, max |-> 5]
Aligning == [cu8 |-> FALSE, align |-> 3, block |-> 3, max |-> 5]
Captures == {Unlimited, OddLimit, Aligning}

VARIABLE part    \* which of the three a behaviour is of

SamplesInit ==
    /\ part \in {"ring", "capture", "pool"} /\ Init /\ CaptureInit /\ PoolInit
    /\ part # "capture" => config = Unlimited

SamplesNext ==
    /\ \/ part = "ring" /\ Next /\ UNCHANGED <<captureVars, workerVars>>
       \/ part = "capture" /\ CaptureNext /\ UNCHANGED <<vars, workerVars>>
       \/ part = "pool" /\ PoolNext /\ UNCHANGED <<vars, captureVars>>
    /\ UNCHANGED part

\* the fairness of FairSpec, CaptureFairSpec and PoolFairSpec, each for as
\* long as it runs
Rings == part = "ring"
Writes == part = "capture"
Pools == part = "pool"
SamplesSpec ==
    /\ SamplesInit /\ [][SamplesNext]_<<vars, captureVars, workerVars, part>>
    /\ WF_vars(Rings /\ DemodStep) /\ WF_vars(Rings /\ dev # "idle" /\ DeviceStep)
    /\ WF_vars(Rings /\ AskFlag)
    /\ WF_captureVars(Writes /\ WriterStep) /\ WF_captureVars(Writes /\ Age)
    /\ WF_captureVars(Writes /\ (Closed \/ Aborted))
    /\ WF_workerVars(Pools /\ CallerSteps)
    /\ \A w \in Workers : WF_workerVars(Pools /\ WorkerSteps(w))

\* No thread along the path is left waiting: samples move, a stop ends the
\* demodulator, staged bytes reach the file, and a close, a call of the pool and
\* its teardown return.
SamplesGoOn ==
    /\ SamplesMove /\ StopEndsDemod /\ StagedReachesFile /\ CloseReturns
    /\ CallReturns /\ DestroyReturns
=============================================================================
