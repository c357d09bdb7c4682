-------------------------------- MODULE Sync --------------------------------
(***************************************************************************)
(* The locks and the sleeping, one instance of each in one model: "part"   *)
(* says which of them a behaviour is about, the others stay as they began. *)
(***************************************************************************)
EXTENDS Integers, FiniteSets

CONSTANTS
  Cpus, Procs,
  SpinCpus, SpinHalf,  (* who uses the spin lock, and the width of its byte *)
  RwBias, RwHalf,
  Count,               (* of the semaphore                                 *)
  Sleepers, MaxItems,
  Users,               (* of the tasklet                                   *)
  MaxDepth             (* of the big lock                                  *)

VARIABLES
  part,
  slock, spc,
  rlock, rpc, rirqs,
  mcount, msleepers, mpc, mqueue, masleep, msignal,
  xcount, xgranted, xpc, xasleep, xbug,
  wkind, witems, wqueue, wstate, wpc, wwaking, wsignal,
  pcount, pflags, ppc, pwait, pfreed,
  kstate, kcount, klist, kpc,
  bflag, bdepth, bcurrent, birqs, bpc

Spin == INSTANCE SpinLock WITH
  Cpus <- SpinCpus, Half <- SpinHalf, lock <- slock, pc <- spc
Rw == INSTANCE RwLock WITH
  Bias <- RwBias, Half <- RwHalf, lock <- rlock, pc <- rpc, irqs <- rirqs
Sem == INSTANCE Semaphore WITH
  count <- mcount, sleepers <- msleepers, pc <- mpc,
  queue <- mqueue, asleep <- masleep, signal <- msignal
Rws == INSTANCE RwSem WITH
  BIAS <- RwBias, count <- xcount, granted <- xgranted, pc <- xpc,
  asleep <- xasleep, bug <- xbug
Wait == INSTANCE WaitQueue WITH
  Tasks <- Sleepers, Wakers <- Cpus, kind <- wkind, items <- witems,
  queue <- wqueue, state <- wstate, pc <- wpc, waking <- wwaking, signal <- wsignal
Page == INSTANCE Pages WITH
  count <- pcount, flags <- pflags, pc <- ppc, wait <- pwait, freed <- pfreed
Task == INSTANCE Tasklet WITH
  state <- kstate, count <- kcount, list <- klist, pc <- kpc
Big == INSTANCE BigLock WITH
  Tasks <- Procs, kernel_flag <- bflag,
  lock_depth <- bdepth, current <- bcurrent, irqs <- birqs, pc <- bpc

ASSUME Sizes ==
  /\ Spin!CpusOK /\ Rw!BiasOK /\ Sem!CountOK /\ Rws!BiasOK
  /\ Wait!MaxItemsOK /\ Page!ProcsOK /\ Task!ActorsOK /\ Big!MaxDepthOK

spinvars == <<slock, spc>>
rwvars == <<rlock, rpc, rirqs>>
semvars == <<mcount, msleepers, mpc, mqueue, masleep, msignal>>
rwsemvars == <<xcount, xgranted, xpc, xasleep, xbug>>
waitvars == <<wkind, witems, wqueue, wstate, wpc, wwaking, wsignal>>
pagevars == <<pcount, pflags, ppc, pwait, pfreed>>
taskletvars == <<kstate, kcount, klist, kpc>>
bigvars == <<bflag, bdepth, bcurrent, birqs, bpc>>
vars == <<part, spinvars, rwvars, semvars, rwsemvars, waitvars, pagevars, taskletvars, bigvars>>

Parts == {"spin", "rw", "sem", "rwsem", "wait", "page", "tasklet", "big"}

(* What has several first states has one of them when it is not the part.  *)
Init ==
  /\ part \in Parts
  /\ Spin!Init /\ Rw!Init /\ Sem!Init /\ Rws!Init /\ Wait!Init /\ Page!Init /\ Task!Init /\ Big!Init
  /\ part # "wait" => wkind = [t \in Sleepers |-> "plain"]
  /\ part # "big" => bcurrent = CHOOSE f \in [Cpus -> Procs] : \A c, d \in Cpus : f[c] = f[d] => c = d

Unless(p, stay) == IF part = p THEN TRUE ELSE stay

(* A step of one part leaves the others alone.                             *)
In(p, step) ==
  /\ part = p /\ step /\ part' = p
  /\ Unless("spin", UNCHANGED spinvars) /\ Unless("rw", UNCHANGED rwvars)
  /\ Unless("sem", UNCHANGED semvars) /\ Unless("rwsem", UNCHANGED rwsemvars)
  /\ Unless("wait", UNCHANGED waitvars) /\ Unless("page", UNCHANGED pagevars)
  /\ Unless("tasklet", UNCHANGED taskletvars) /\ Unless("big", UNCHANGED bigvars)

Next ==
  \/ In("spin", Spin!Next) \/ In("rw", Rw!Next) \/ In("sem", Sem!Next) \/ In("rwsem", Rws!Next)
  \/ In("wait", Wait!Next) \/ In("page", Page!Next) \/ In("tasklet", Task!Next) \/ In("big", Big!Next)

(* The fairness of the parts, actor by actor: what runs goes on, and who   *)
(* has a semaphore gives it back.                                          *)
CpuGoes(c) ==
  \/ In("rw", Rw!Go(<<c, "task">>)) \/ In("wait", Wait!WakeUp(c)) \/ In("tasklet", Task!Softirq(c))
HandlerGoes(c) == In("rw", Rw!Go(<<c, "irq">>))
TaskGoes(t) == In("sem", Sem!Go(t)) \/ In("wait", t \in Sleepers /\ Wait!Go(t)) \/ In("page", Page!Go(t))
GivesBack(t) == In("sem", Sem!Up(t))

Fairness ==
  /\ \A c \in Cpus : WF_vars(CpuGoes(c)) /\ WF_vars(HandlerGoes(c))
  /\ \A t \in Procs : WF_vars(TaskGoes(t)) /\ WF_vars(GivesBack(t))

Spec == Init /\ [][Next]_vars /\ Fairness
-----------------------------------------------------------------------------
(* The types of all parts.                                                 *)
TypeOK ==
  /\ Spin!TypeOK /\ Rw!TypeOK /\ Sem!TypeOK /\ Rws!TypeOK
  /\ Wait!TypeOK /\ Page!TypeOK /\ Task!TypeOK /\ Big!TypeOK

(* Every lock excludes whom it promises to exclude (spinlock.h, rwlock.h,  *)
(* semaphore.h, mm.h, interrupt.h, smplock.h).                             *)
Excludes ==
  /\ Spin!Excludes /\ Rw!Excludes /\ []Sem!Excludes /\ Rws!Excludes
  /\ Page!Excludes /\ Task!Excludes /\ Big!Excludes

(* Counters and flags say who is in and who is under way, and are what     *)
(* they were when nobody is.                                               *)
CountKept ==
  /\ Spin!CountsSpinners /\ Rw!Counted /\ Sem!CountRestored /\ Rws!Restored /\ Rws!NoBug
  /\ Page!Counted /\ Task!Counted /\ Big!Counted

(* Nobody sleeps with nobody left to wake him, nor waits for himself.      *)
NoLostWakeup ==
  Sem!NoneForgotten /\ Wait!Queued /\ Wait!NoLostWakeup /\ Page!NoLostWakeup /\ Rw!NoSelfDeadlock

(* Whoever waits is served, as far as the code promises it.                *)
Served ==
  /\ Rw!HandlerServed /\ Sem!EveryoneServed /\ Wait!SignalEnds /\ Wait!Served
  /\ Page!Served /\ Task!Served
=============================================================================
