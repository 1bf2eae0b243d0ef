---------------------------- MODULE SecretDeploy ----------------------------
(***************************************************************************)
(* neet-secret decrypt: how the secrets of a system come to /run/secrets.  *)
(*                                                                         *)
(* A run decrypts every secret of the manifest into secrets-tmp, removes   *)
(* secrets-current, renames the one to the other and points /run/secrets   *)
(* at it.  A secret with a path of its own is written there at once, in    *)
(* the middle of the loop.  A run may meet a secret that it cannot decrypt *)
(* or whose owner does not exist, and may be killed between any two calls; *)
(* /run is empty after an outage and the other paths are not.              *)
(*                                                                         *)
(* A file is <<where, name, system>>: the system whose manifest it comes   *)
(* from stands for its contents.  Owners and modes are left out.           *)
(***************************************************************************)
EXTENDS Naturals, FiniteSets

CONSTANTS
  Systems,     \* the systems whose manifests may be at /etc
  Secrets,     \* Secrets[s]: the names in the manifest of s
  OwnPath,     \* the names that have a path outside of /run/secrets
  InEnv,       \* the names that are also given to a service as a variable
  None

ASSUME SecretsAssumption ==
  /\ Secrets \in [Systems -> SUBSET UNION {Secrets[s] : s \in Systems}]
  /\ None \notin Systems

VARIABLES
  etc,         \* the system whose manifest is at /etc/secrets-manifest.json,
               \* None before the first boot
  tmp,         \* /run/secrets-tmp: the set of its files, or None
  live,        \* /run/secrets-current: the same
  linked,      \* /run/secrets exists
  own,         \* own[n]: the system whose secret lies at n's own path
  job,         \* the manifest a run works on, or None
  step,        \* where that run is
  todo,        \* the secrets of its loop still to come
  torn         \* a run was killed while it removed secrets-current

secretVars == <<tmp, live, linked, own, job, step, todo, torn>>

Names == UNION {Secrets[s] : s \in Systems}

(* What a whole run for s leaves below the runtime directory, and the part of
   it that is one secret's. *)
Generation(s) ==
  {"by-name"} \X (Secrets[s] \ OwnPath) \X {s}
    \cup {"env"} \X (Secrets[s] \cap InEnv) \X {s}

FilesOf(s, n) == {f \in Generation(s) : f[2] = n}

SecretInit ==
  /\ etc = None /\ tmp = None /\ live = None /\ linked = FALSE
  /\ own = [n \in OwnPath |-> None]
  /\ job = None /\ step = "idle" /\ todo = {} /\ torn = FALSE

(* Mutant: what an earlier run has left is kept. *)
BeginOnLeftovers ==
  /\ job = None /\ etc # None
  /\ job' = etc /\ step' = "deploy" /\ todo' = Secrets[etc]
  /\ tmp' = IF tmp = None THEN {} ELSE tmp
  /\ UNCHANGED <<live, linked, own, torn>>

(* Opens the manifest and starts with an empty secrets-tmp: what an earlier
   run has left there is removed. *)
Begin ==
  /\ job = None /\ etc # None
  /\ job' = etc /\ step' = "deploy" /\ todo' = Secrets[etc]
  /\ tmp' = {}
  /\ UNCHANGED <<live, linked, own, torn>>

(* One round of the loop.  The file at a path of its own is truncated and
   written in place; Truncate is the moment in between. *)
Deploy(n) ==
  /\ step = "deploy" /\ n \in todo
  /\ n \in OwnPath => own[n] = "cut"
  /\ tmp' = tmp \cup FilesOf(job, n)
  /\ own' = [m \in OwnPath |-> IF m = n THEN job ELSE own[m]]
  /\ todo' = todo \ {n}
  /\ UNCHANGED <<live, linked, job, step, torn>>

Truncate(n) ==
  /\ step = "deploy" /\ n \in todo \cap OwnPath
  /\ own' = [own EXCEPT ![n] = "cut"]
  /\ UNCHANGED <<tmp, live, linked, job, step, todo, torn>>

(* Mutant: secrets-current is removed before the loop. *)
ReadyAtOnce == step \in {"deploy", "sweep"}

(* The loop is over: secrets-current is on its way out. *)
Ready == (step = "deploy" /\ todo = {}) \/ step = "sweep"

Served == IF live = None THEN {} ELSE live

(* remove_dir_all of secrets-current takes the files one by one.  It is not
   called when there is no such directory. *)
Sweep(f) ==
  /\ Ready
  /\ f \in Served
  /\ live' = live \ {f}
  /\ step' = "sweep"
  /\ UNCHANGED <<tmp, linked, own, job, todo, torn>>

Swept ==
  /\ Ready
  /\ live \in {None, {}}
  /\ live' = None
  /\ step' = "rename"
  /\ UNCHANGED <<tmp, linked, own, job, todo, torn>>

Rename ==
  /\ step = "rename"
  /\ live' = tmp /\ tmp' = None
  /\ step' = "link" /\ torn' = FALSE
  /\ UNCHANGED <<linked, own, job, todo>>

(* atomic_symlink of /run/secrets to secrets-current. *)
Link ==
  /\ step = "link"
  /\ linked' = TRUE
  /\ job' = None /\ step' = "idle"
  /\ UNCHANGED <<tmp, live, own, todo, torn>>

(* An error of any call ends the run with `?'; a kill does the same. *)
GiveUp ==
  /\ job # None
  /\ job' = None /\ step' = "idle" /\ todo' = {}
  /\ torn' = (torn \/ step \in {"sweep", "rename"})
  /\ UNCHANGED <<tmp, live, linked, own>>

(* The machine goes down: /run is a tmpfs. *)
Outage ==
  /\ tmp' = None /\ live' = None /\ linked' = FALSE
  /\ job' = None /\ step' = "idle" /\ todo' = {} /\ torn' = FALSE
  /\ UNCHANGED own

SecretStep ==
  \/ Begin
  \/ \E n \in Names : Truncate(n) \/ Deploy(n)
  \/ \E f \in Served : Sweep(f)
  \/ Swept \/ Rename \/ Link \/ GiveUp

(* On its own: /etc may come to hold the manifest of another system at any
   time; Activation has the program that does it. *)
NewEtc == etc' \in Systems /\ UNCHANGED secretVars

SecretNext == ((SecretStep \/ Outage) /\ UNCHANGED etc) \/ NewEtc

SecretSpec == SecretInit /\ [][SecretNext]_<<etc, secretVars>>

-----------------------------------------------------------------------------
(* What is served is one generation, never a mixture of two: it is whole but
   for the time of its removal, and after a run that was killed during that
   time.  When a run is about to say that it has installed all secrets, it
   has: those of its manifest and no other, and those with their own path
   (decrypt.rs:35-46). *)
ServedIsWhole ==
  /\ live # None => \E s \in Systems : /\ live \subseteq Generation(s)
                                       /\ live = Generation(s) \/ step = "sweep" \/ torn
  /\ step = "link" => /\ live = Generation(job)
                      /\ \A n \in Secrets[job] \cap OwnPath : own[n] = job

(* Nothing is taken from what is served before its whole successor lies
   ready: a secret that fails to decrypt costs no secret that was there
   (decrypt.rs:35-42).  Only an outage takes it otherwise. *)
WithdrawnOnlyWhenReady ==
  [][live' # live => \/ job # None /\ tmp = Generation(job)
                     \/ job' = None /\ live' = None /\ ~linked']_<<etc, secretVars>>
=============================================================================
