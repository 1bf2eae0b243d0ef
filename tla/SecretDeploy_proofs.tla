------------------------- MODULE SecretDeploy_proofs -------------------------
(* /run/secrets serves one generation, and nothing of it is taken before its    *)
(* successor is whole: for all systems, all secrets and any number of runs that *)
(* fail, are killed or meet an outage.                                          *)
EXTENDS SecretDeploy, TLAPS

Steps == {"idle", "deploy", "sweep", "rename", "link"}

\* What is known of the place a run has come to.
Control ==
  /\ etc \in Systems \cup {None} /\ job \in Systems \cup {None}
  /\ step \in Steps /\ (job = None <=> step = "idle")
  /\ own = [n \in OwnPath |-> own[n]]

\* The loop: what it has dealt with lies in secrets-tmp or at its own path.
Dealt(n) == n \in Secrets[job] \ todo

Looped ==
  step = "deploy" =>
    /\ todo \subseteq Secrets[job]
    /\ \A f : f \in tmp <=> f \in Generation(job) /\ Dealt(f[2])
    /\ \A n \in OwnPath : Dealt(n) => own[n] = job

\* Behind the loop: the successor is whole.
Whole ==
  /\ step \in {"sweep", "rename"} => tmp = Generation(job)
  /\ step = "rename" => live = None
  /\ step = "link" => live = Generation(job)
  /\ step \in {"sweep", "rename", "link"} =>
       \A n \in OwnPath : n \in Secrets[job] => own[n] = job

OneGeneration ==
  live # None => \E s \in Systems : /\ live \subseteq Generation(s)
                                    /\ live = Generation(s) \/ step = "sweep" \/ torn

IInv == Control /\ Looped /\ Whole /\ OneGeneration

\* Every file of a generation is of one of the secrets of its system.
LEMMA FilesAreOfSecrets ==
  ASSUME NEW s, NEW f \in Generation(s)
  PROVE  f[2] \in Secrets[s]
  BY DEF Generation

LEMMA InitInv == SecretInit => IInv
  BY DEF SecretInit, IInv, Control, Looped, Whole, OneGeneration, Steps

\* When the loop is over, secrets-tmp holds a whole generation.
LEMMA ReadyIsWhole ==
  ASSUME IInv, Ready
  PROVE  /\ tmp = Generation(job) /\ job # None
         /\ \A n \in OwnPath : n \in Secrets[job] => own[n] = job
<1>1. CASE step = "deploy" /\ todo = {}
  <2>1. \A f : f \in tmp <=> f \in Generation(job)
    BY <1>1, FilesAreOfSecrets DEF IInv, Looped, Dealt
  <2>2. tmp = Generation(job)
    BY <2>1
  <2> QED
    BY <1>1, <2>2 DEF IInv, Control, Looped, Dealt
<1>2. CASE step = "sweep"
  BY <1>2 DEF IInv, Control, Whole
<1> QED
  BY <1>1, <1>2 DEF Ready

LEMMA BeginInv == IInv /\ Begin /\ UNCHANGED etc => IInv'
<1> SUFFICES ASSUME IInv, Begin, UNCHANGED etc PROVE IInv'
  OBVIOUS
<1>1. Control' /\ Whole'
  BY DEF IInv, Control, Whole, Begin, Steps
<1>2. Looped'
  BY DEF Begin, Looped, Dealt
<1>3. OneGeneration'
  BY DEF IInv, Control, OneGeneration, Begin, Generation
<1> QED
  BY <1>1, <1>2, <1>3 DEF IInv

LEMMA DeployInv ==
  ASSUME IInv, UNCHANGED etc, NEW n \in Names, Truncate(n) \/ Deploy(n)
  PROVE  IInv'
<1>1. CASE Truncate(n)
  <2>1. Control'
    BY <1>1 DEF IInv, Control, Truncate, Steps
  <2>2. Looped' /\ Whole'
    <3>1. \A m \in OwnPath : m # n => own'[m] = own[m]
      BY <1>1 DEF IInv, Control, Truncate
    <3>2. n \in todo /\ step = "deploy" /\ UNCHANGED <<tmp, live, job, step, todo>>
      BY <1>1 DEF Truncate
    <3> QED
      BY <3>1, <3>2 DEF IInv, Looped, Whole, Dealt, Generation
  <2>3. OneGeneration'
    BY <1>1 DEF IInv, OneGeneration, Truncate, Generation
  <2> QED
    BY <2>1, <2>2, <2>3 DEF IInv
<1>2. CASE Deploy(n)
  <2>1. Control'
    BY <1>2 DEF IInv, Control, Deploy, Steps
  <2>2. Looped'
    <3>1. step = "deploy" /\ n \in todo /\ UNCHANGED <<job, step>>
      BY <1>2 DEF Deploy
    <3>2. \A f : f \in tmp' <=> f \in tmp \/ (f \in Generation(job) /\ f[2] = n)
      BY <1>2 DEF Deploy, FilesOf
    <3>3. \A m : (m \in Secrets[job] \ todo') <=> m = n \/ m \in Secrets[job] \ todo
      BY <1>2, <3>1 DEF Deploy, IInv, Looped
    <3>4. todo' \subseteq Secrets[job]
      BY <1>2, <3>1 DEF Deploy, IInv, Looped
    <3>5. \A f : f \in tmp' <=> f \in Generation(job) /\ f[2] \in Secrets[job] \ todo'
      BY <3>1, <3>2, <3>3 DEF IInv, Looped, Dealt
    <3>6. \A m \in OwnPath : m \in Secrets[job] \ todo' => own'[m] = job
      BY <1>2, <3>1, <3>3 DEF Deploy, IInv, Looped, Dealt
    <3> QED
      BY <3>1, <3>4, <3>5, <3>6 DEF Looped, Dealt, Generation
  <2>3. Whole' /\ OneGeneration'
    BY <1>2 DEF IInv, Whole, OneGeneration, Deploy, Generation
  <2> QED
    BY <2>1, <2>2, <2>3 DEF IInv
<1> QED
  BY <1>1, <1>2

LEMMA SwapInv ==
  ASSUME IInv, UNCHANGED etc, (\E f \in Served : Sweep(f)) \/ Swept \/ Rename \/ Link
  PROVE  IInv'
<1>1. ASSUME NEW f \in Served, Sweep(f) PROVE IInv'
  <2>1. live # None /\ Ready
    BY <1>1 DEF Served, Sweep
  <2>2. tmp = Generation(job) /\ job # None /\ \A n \in OwnPath : n \in Secrets[job] => own[n] = job
    BY <2>1, ReadyIsWhole
  <2>3. step' = "sweep" /\ live' \subseteq live /\ UNCHANGED <<tmp, own, job, todo>>
    BY <1>1 DEF Sweep
  <2>4. Control' /\ Looped' /\ Whole'
    BY <2>2, <2>3 DEF IInv, Control, Looped, Whole, Generation, Steps
  <2>5. OneGeneration'
    BY <2>1, <2>3 DEF IInv, OneGeneration, Generation
  <2> QED
    BY <2>4, <2>5 DEF IInv
<1>2. CASE Swept
  <2>1. tmp = Generation(job) /\ job # None /\ \A n \in OwnPath : n \in Secrets[job] => own[n] = job
    BY <1>2, ReadyIsWhole DEF Swept
  <2> QED
    BY <1>2, <2>1 DEF Swept, IInv, Control, Looped, Whole, OneGeneration, Generation, Steps
<1>3. CASE Rename
  <2>1. Control' /\ Looped' /\ Whole'
    BY <1>3 DEF Rename, IInv, Control, Looped, Whole, Generation, Steps
  <2>2. job \in Systems /\ live' = Generation(job)
    BY <1>3 DEF Rename, IInv, Control, Whole
  <2>3. OneGeneration'
    BY <2>2 DEF OneGeneration, Generation
  <2> QED
    BY <2>1, <2>3 DEF IInv
<1>4. CASE Link
  <2>1. Control' /\ Looped' /\ Whole'
    BY <1>4 DEF Link, IInv, Control, Looped, Whole, Generation, Steps
  <2>2. OneGeneration'
    BY <1>4 DEF Link, IInv, OneGeneration, Generation
  <2> QED
    BY <2>1, <2>2 DEF IInv
<1> QED
  BY <1>1, <1>2, <1>3, <1>4

LEMMA EndInv ==
  ASSUME IInv, (GiveUp /\ UNCHANGED etc) \/ (Outage /\ UNCHANGED etc) \/ NewEtc
  PROVE  IInv'
<1>1. CASE GiveUp /\ UNCHANGED etc
  <2>1. Control' /\ Looped' /\ Whole'
    BY <1>1 DEF GiveUp, IInv, Control, Looped, Whole, Steps
  <2>2. OneGeneration'
    BY <1>1 DEF GiveUp, IInv, OneGeneration, Generation
  <2> QED
    BY <2>1, <2>2 DEF IInv
<1>2. CASE Outage /\ UNCHANGED etc
  BY <1>2 DEF Outage, IInv, Control, Looped, Whole, OneGeneration, Steps
<1>3. CASE NewEtc
  <2>1. Control'
    BY <1>3 DEF NewEtc, secretVars, IInv, Control, Steps
  <2>2. Looped' /\ Whole' /\ OneGeneration'
    BY <1>3 DEF NewEtc, secretVars, IInv, Looped, Dealt, Whole, OneGeneration, Generation
  <2> QED
    BY <2>1, <2>2 DEF IInv
<1> QED
  BY <1>1, <1>2, <1>3

LEMMA NextInv == IInv /\ [SecretNext]_<<etc, secretVars>> => IInv'
<1> SUFFICES ASSUME IInv, [SecretNext]_<<etc, secretVars>> PROVE IInv'
  OBVIOUS
<1>1. CASE UNCHANGED <<etc, secretVars>>
  BY <1>1 DEF secretVars, IInv, Control, Looped, Dealt, Whole, OneGeneration, Generation
<1>2. CASE SecretNext
  BY <1>2, BeginInv, DeployInv, SwapInv, EndInv DEF SecretNext, SecretStep
<1> QED
  BY <1>1, <1>2

\* The inductive invariant: behind its loop a run has a whole generation in
\* secrets-tmp, and what is served is part of one generation
\* (decrypt.rs:15-46).
THEOREM SecretInvariant == SecretSpec => []IInv
  BY InitInv, NextInv, PTL DEF SecretSpec

\* What is served is one generation, whole but for its removal, and a run that
\* reports success has installed every secret of its manifest.
THEOREM ServedGenerationIsWhole == SecretSpec => []ServedIsWhole
<1>1. IInv => ServedIsWhole
  BY DEF IInv, Whole, OneGeneration, ServedIsWhole
<1> QED
  BY <1>1, SecretInvariant, PTL

\* No secret is withdrawn before its successor lies ready, except by an outage.
LEMMA StepWithdraws ==
  IInv /\ [SecretNext]_<<etc, secretVars>> =>
    (live' # live => \/ job # None /\ tmp = Generation(job)
                     \/ job' = None /\ live' = None /\ ~linked')
<1> SUFFICES ASSUME IInv, SecretNext, live' # live
             PROVE  \/ job # None /\ tmp = Generation(job)
                    \/ job' = None /\ live' = None /\ ~linked'
  BY DEF secretVars
<1>1. CASE Outage
  BY <1>1 DEF Outage
<1>2. ASSUME NEW f \in Served, Sweep(f) PROVE job # None /\ tmp = Generation(job)
  BY <1>2, ReadyIsWhole DEF Sweep
<1>3. CASE Swept
  BY <1>3, ReadyIsWhole DEF Swept
<1>4. CASE Rename
  BY <1>4 DEF Rename, IInv, Control, Whole
<1> QED
  BY <1>1, <1>2, <1>3, <1>4
  DEF SecretNext, SecretStep, NewEtc, secretVars, Begin, Truncate, Deploy, Link, GiveUp

\* A secret that fails to decrypt costs no secret that was there.
THEOREM FailureCostsNothing == SecretSpec => WithdrawnOnlyWhenReady
<1>1. IInv /\ [SecretNext]_<<etc, secretVars>> =>
        [live' # live => \/ job # None /\ tmp = Generation(job)
                         \/ job' = None /\ live' = None /\ ~linked']_<<etc, secretVars>>
  BY StepWithdraws
<1> QED
  BY <1>1, SecretInvariant, PTL DEF SecretSpec, WithdrawnOnlyWhenReady
=============================================================================
