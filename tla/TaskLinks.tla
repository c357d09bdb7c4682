----------------------------- MODULE TaskLinks ------------------------------
(***************************************************************************)
(* include/linux/sched.h: the pid hash, the ring of all tasks and the      *)
(* family pointers, as fork, exit and wait use them under tasklist_lock.   *)
(* Those callers are not in the repository.                                *)
(***************************************************************************)
EXTENDS Integers, FiniteSets

CONSTANTS
  Tasks, init_task, NULL,
  Pids,     (* a pid is the set of its bits                                *)
  HashBits  (* log2(PIDHASH_SZ)                                            *)

InitOK == init_task \notin Tasks /\ NULL \notin Tasks \union {init_task} /\ IsFiniteSet(Tasks)
HashOK == HashBits \in Nat /\ Pids \subseteq SUBSET Nat

All == Tasks \union {init_task}

VARIABLES
  state,    (* "free", "live" or "zombie"                                  *)
  pid,
  link,     (* next_task, prev_task, p_pptr, p_cptr, p_ysptr, p_osptr      *)
  pidhash, pidhash_next,
  pidhash_pprev  (* where the pointer to this task is: a bucket or a task  *)

vars == <<state, pid, link, pidhash, pidhash_next, pidhash_pprev>>

(* The numbers below PIDHASH_SZ.                                           *)
Buckets == SUBSET (0 .. HashBits - 1)

(* INIT_TASK                                                               *)
Init ==
  LET self == [t \in All |-> IF t = init_task THEN t ELSE NULL]
      none == [t \in All |-> NULL]
  IN /\ state = [t \in All |-> IF t = init_task THEN "live" ELSE "free"]
     /\ pid = [t \in All |-> {}]
     /\ link = [next |-> self, prev |-> self, pptr |-> self, cptr |-> none, ysptr |-> none, osptr |-> none]
     /\ pidhash = [i \in Buckets |-> NULL]
     /\ pidhash_next = none /\ pidhash_pprev = none

(* ((x >> 8) ^ x) & (PIDHASH_SZ - 1)                                       *)
Shifted(x) == {b - 8 : b \in {c \in x : c >= 8}}
pid_hashfn(x) == ((Shifted(x) \ x) \union (x \ Shifted(x))) \intersect (0 .. HashBits - 1)

Bucket(i) == <<"bucket", i>>
InTask(t) == <<"task", t>>

(* f with f[x] = v, where x may be NULL: if (x) x->f = v.                  *)
If(f, x, v) == IF x = NULL THEN f ELSE [f EXCEPT ![x] = v]

(* Mutant of hash_pid: a stale pid is hashed.                              *)
HashOldPid(p) ==
  LET i == pid_hashfn(pid[p]) IN
  /\ pidhash_next' = [pidhash_next EXCEPT ![p] = pidhash[i]]
  /\ pidhash_pprev' = [If(pidhash_pprev, pidhash[i], InTask(p)) EXCEPT ![p] = Bucket(i)]
  /\ pidhash' = [pidhash EXCEPT ![i] = p]

hash_pid(p) ==
  LET i == pid_hashfn(pid'[p]) IN
  /\ pidhash_next' = [pidhash_next EXCEPT ![p] = pidhash[i]]
  /\ pidhash_pprev' = [If(pidhash_pprev, pidhash[i], InTask(p)) EXCEPT ![p] = Bucket(i)]
  /\ pidhash' = [pidhash EXCEPT ![i] = p]

(* Mutant of unhash_pid: the next task keeps its back pointer.             *)
UnhashForward(p) ==
  LET at == pidhash_pprev[p] IN
  /\ IF at[1] = "bucket"
       THEN pidhash' = [pidhash EXCEPT ![at[2]] = pidhash_next[p]] /\ UNCHANGED pidhash_next
       ELSE pidhash_next' = [pidhash_next EXCEPT ![at[2]] = pidhash_next[p]] /\ UNCHANGED pidhash
  /\ UNCHANGED pidhash_pprev

unhash_pid(p) ==
  LET at == pidhash_pprev[p] IN
  /\ pidhash_pprev' = If(pidhash_pprev, pidhash_next[p], at)
  /\ IF at[1] = "bucket"
       THEN pidhash' = [pidhash EXCEPT ![at[2]] = pidhash_next[p]] /\ UNCHANGED pidhash_next
       ELSE pidhash_next' = [pidhash_next EXCEPT ![at[2]] = pidhash_next[p]] /\ UNCHANGED pidhash

find_task_by_pid(x) ==
  LET f[n \in Nat] ==
        LET p == IF n = 0 THEN pidhash[pid_hashfn(x)] ELSE f[n - 1] IN
        IF p = NULL \/ pid[p] = x \/ n = 0 THEN p ELSE pidhash_next[p]
  IN f[Cardinality(All)]

(* Mutant of REMOVE_LINKS: the youngest child is not replaced.             *)
RemoveOlder(k, p) ==
  [k EXCEPT
    !.prev = [@ EXCEPT ![k.next[p]] = k.prev[p]],
    !.next = [@ EXCEPT ![k.prev[p]] = k.next[p]],
    !.ysptr = If(@, k.osptr[p], k.ysptr[p]),
    !.osptr = If(@, k.ysptr[p], k.osptr[p])]

REMOVE_LINKS(k, p) ==
  [k EXCEPT
    !.prev = [@ EXCEPT ![k.next[p]] = k.prev[p]],
    !.next = [@ EXCEPT ![k.prev[p]] = k.next[p]],
    !.ysptr = If(@, k.osptr[p], k.ysptr[p]),
    !.osptr = If(@, k.ysptr[p], k.osptr[p]),
    !.cptr = IF k.ysptr[p] = NULL THEN [@ EXCEPT ![k.pptr[p]] = k.osptr[p]] ELSE @]

(* Mutant of SET_LINKS: the last task is read after it has changed.        *)
SetLinksLate(k, p) ==
  LET older == k.cptr[k.pptr[p]] IN
  [k EXCEPT
    !.next = [@ EXCEPT ![p] = init_task],
    !.prev = [@ EXCEPT ![p] = k.prev[init_task], ![init_task] = p],
    !.ysptr = [If(@, older, p) EXCEPT ![p] = NULL],
    !.osptr = [@ EXCEPT ![p] = older],
    !.cptr = [@ EXCEPT ![k.pptr[p]] = p]]

SET_LINKS(k, p) ==
  LET last == k.prev[init_task]
      older == k.cptr[k.pptr[p]]
  IN [k EXCEPT
    !.next = [@ EXCEPT ![p] = init_task, ![last] = p],
    !.prev = [@ EXCEPT ![p] = last, ![init_task] = p],
    !.ysptr = [If(@, older, p) EXCEPT ![p] = NULL],
    !.osptr = [@ EXCEPT ![p] = older],
    !.cptr = [@ EXCEPT ![k.pptr[p]] = p]]

(* The child begins as a copy of its parent, links included.               *)
Fork(p, t, x) ==
  /\ state[p] = "live" /\ state[t] = "free" /\ x \notin {pid[u] : u \in {v \in All : state[v] # "free"}}
  /\ state' = [state EXCEPT ![t] = "live"] /\ pid' = [pid EXCEPT ![t] = x]
  /\ LET copy == [f \in DOMAIN link |-> [link[f] EXCEPT ![t] = link[f][p]]] IN
     link' = SET_LINKS([copy EXCEPT !.pptr = [@ EXCEPT ![t] = p], !.cptr = [@ EXCEPT ![t] = NULL]], t)
  /\ hash_pid(t)

Exit(t) ==
  /\ t \in Tasks /\ state[t] = "live"
  /\ state' = [state EXCEPT ![t] = "zombie"]
  /\ UNCHANGED <<pid, link, pidhash, pidhash_next, pidhash_pprev>>

(* The child of one that exits goes to the first task.                     *)
Reparent(c) ==
  /\ state[c] # "free" /\ state[link.pptr[c]] = "zombie"
  /\ link' = SET_LINKS([REMOVE_LINKS(link, c) EXCEPT !.pptr = [@ EXCEPT ![c] = init_task]], c)
  /\ UNCHANGED <<state, pid, pidhash, pidhash_next, pidhash_pprev>>

Release(t) ==
  /\ state[t] = "zombie" /\ link.cptr[t] = NULL
  /\ state' = [state EXCEPT ![t] = "free"]
  /\ unhash_pid(t)
  /\ link' = REMOVE_LINKS(link, t)
  /\ UNCHANGED pid

Next == \E t \in Tasks :
  \/ Exit(t) \/ Reparent(t) \/ Release(t)
  \/ \E p \in All, x \in Pids : Fork(p, t, x)

Spec == Init /\ [][Next]_vars
-----------------------------------------------------------------------------
Known == {t \in All : state[t] # "free"}

TypeOK ==
  /\ state \in [All -> {"free", "live", "zombie"}] /\ pid \in [All -> Pids \union {{}}]
  /\ \A f \in DOMAIN link : link[f] \in [All -> All \union {NULL}]
  /\ pidhash \in [Buckets -> Known \union {NULL}]
  /\ pidhash_next \in [All -> All \union {NULL}]

(* A lookup finds the task that has the pid, zombies included, and nothing *)
(* for a pid nobody has, however pids share buckets and come back          *)
(* (sched.h:483-511).                                                      *)
FindsByPid == \A x \in Pids :
  LET has == {t \in Known \ {init_task} : pid[t] = x}
  IN IF has = {} THEN find_task_by_pid(x) = NULL ELSE find_task_by_pid(x) \in has

(* for_each_task: p = &init_task, then p->next_task until it is again.     *)
Visited ==
  LET f[n \in Nat] == IF n = 0 THEN init_task ELSE link.next[f[n - 1]] IN
  [n \in 0 .. Cardinality(Known) |-> f[n]]

(* for_each_task visits every task and zombie once (sched.h:637-638).      *)
EachTask ==
  /\ {Visited[n] : n \in DOMAIN Visited} = Known
  /\ Visited[Cardinality(Known)] = init_task
  /\ \A t \in Known : link.prev[link.next[t]] = t

(* A task's children, from the youngest on, are those whose parent it is,  *)
(* both ways (sched.h:614-635, 348-352).                                   *)
Children(p) == {t \in Known \ {init_task} : link.pptr[t] = p}
Family == \A p \in Known :
  /\ Children(p) = {} <=> link.cptr[p] = NULL
  /\ Children(p) # {} => link.cptr[p] \in Children(p) /\ link.ysptr[link.cptr[p]] = NULL
  /\ \A t \in Children(p) :
       /\ link.ysptr[t] = NULL <=> t = link.cptr[p]
       /\ link.osptr[t] # NULL => link.osptr[t] \in Children(p) /\ link.ysptr[link.osptr[t]] = t
       /\ link.ysptr[t] # NULL => link.ysptr[t] \in Children(p) /\ link.osptr[link.ysptr[t]] = t
=============================================================================
