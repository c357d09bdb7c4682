----------------------------- MODULE HuftBuild -----------------------------
(***************************************************************************)
(* huft_build() of lib/inflate.c, loop by loop: from the code lengths of a *)
(* set of symbols to the linked lookup tables inflate_codes() walks.       *)
(* What a symbol stands for (literal, end of block, length, distance) is   *)
(* left out: a table entry names the symbol.                               *)
(***************************************************************************)
EXTENDS Integers, Sequences, FiniteSets, FiniteSetsExt

CONSTANTS
  LengthLists, (* the lists of code lengths to build tables for            *)
  Lookups,     (* the values of *m the callers ask for                     *)
  BMAX         (* the longest code, 16                                     *)

ASSUME ListsOK ==
  BMAX \in Nat /\ \A list \in LengthLists : \E n \in 1 .. Cardinality(DOMAIN list) : list \in [0 .. n - 1 -> 0 .. BMAX]
ASSUME LookupsOK == Lookups \subseteq 1 .. BMAX

VARIABLES
  b,     (* the code lengths, a function on the symbols                    *)
  m,     (* *m: lookup bits, wanted and then granted                       *)
  c,     (* codes of each length, dummies included                         *)
  v,     (* v[0 .. n-1]: symbols in order of code length                   *)
  y,     (* number of dummy codes added                                    *)
  g, l,  (* maximum code length; bits per table                            *)
  k, a,  (* length of the current code; codes of that length left          *)
  i, p,  (* the current code, first bit lowest; index into v               *)
  h, w,  (* table level; bits before this table                            *)
  x, u,  (* per level: the code bits before its table; the table           *)
  tabs,  (* the tables malloc()ed; the last is where q points              *)
  pc, ret

vars == <<b, m, c, v, y, g, l, k, a, i, p, h, w, x, u, tabs, pc, ret>>

(* 1 << bits                                                               *)
Shl[bits \in Nat] == IF bits = 0 THEN 1 ELSE 2 * Shl[bits - 1]

Symbols == DOMAIN b
Cardinal(len) == Cardinality({s \in Symbols : b[s] = len})
Used == {s \in Symbols : b[s] > 0}
Shortest == Min({b[s] : s \in Used})
Longest == Max({b[s] : s \in Used})

(* Patterns of a length left over, negative if oversubscribed: y doubles   *)
(* and c[j] is subtracted; it can stop below 0, from where none comes back.*)
Left[len \in Nat] == IF len = 0 THEN 1 ELSE 2 * Left[len - 1] - Cardinal(len)
Spare == Left[Longest]

(* v[x[j]++] = i: by length, then by symbol.  What is behind the used      *)
(* symbols was never written.                                              *)
Garbage == -1
(* Mutant of Before: symbols of one length in reverse order.               *)
BeforeReversed(s, t) == b[s] < b[t] \/ (b[s] = b[t] /\ s > t)
Before(s, t) == b[s] < b[t] \/ (b[s] = b[t] /\ s < t)
Sorted ==
  [q \in Symbols |->
     IF q < Cardinality(Used)
     THEN CHOOSE s \in Used : Cardinality({t \in Used : Before(t, s)}) = q
     ELSE Garbage]

Init ==
  /\ b \in LengthLists
  /\ m \in Lookups
  /\ c = [len \in 0 .. BMAX |-> 0]
  /\ v = [q \in Symbols |-> Garbage]
  /\ y = 0 /\ g = 0 /\ l = 0 /\ k = 0 /\ a = 0
  /\ i = 0 /\ p = 0 /\ h = -1 /\ w = 0
  /\ x = [lev \in 0 .. BMAX |-> 0]
  /\ u = [lev \in 0 .. BMAX |-> 0]
  /\ tabs = <<>>
  /\ pc = "count"
  /\ ret = 0

(* All lengths are zero: no table, and success.                            *)
NullInput ==
  /\ pc = "count" /\ Used = {}
  /\ m' = 0
  /\ ret' = 0
  /\ pc' = "done"
  /\ UNCHANGED <<b, c, v, y, g, l, k, a, i, p, h, w, x, u, tabs>>

(* Table size, then codes against bits.                                    *)
Bound(lo, hi, want) == IF want < lo THEN lo ELSE IF want > hi THEN hi ELSE want

Oversubscribed ==
  /\ pc = "count" /\ Used # {} /\ Spare < 0
  /\ m' = Bound(Shortest, Longest, m)
  /\ ret' = 2
  /\ pc' = "done"
  /\ UNCHANGED <<b, c, v, y, g, l, k, a, i, p, h, w, x, u, tabs>>

(* Counts, filled up with dummies of the maximum length, and values.       *)
Prepare ==
  /\ pc = "count" /\ Used # {} /\ Spare >= 0
  /\ g' = Longest /\ k' = Shortest
  /\ l' = Bound(Shortest, Longest, m) /\ m' = l'
  /\ y' = Spare
  /\ c' = [len \in 0 .. BMAX |-> IF len = g' THEN Cardinal(len) + y' ELSE Cardinal(len)]
  /\ a' = c'[k']
  /\ v' = Sorted
  /\ w' = -l'
  /\ pc' = "codes"
  /\ UNCHANGED <<b, i, p, h, x, u, tabs, ret>>

(* The two outer loops: the next length, the next code of it, the end.     *)
NextLength ==
  /\ pc = "codes" /\ a = 0 /\ k < g
  /\ k' = k + 1
  /\ a' = c[k + 1]
  /\ UNCHANGED <<b, m, c, v, y, g, l, i, p, h, w, x, u, tabs, pc, ret>>

NextCode ==
  /\ pc = "codes" /\ a > 0
  /\ a' = a - 1
  /\ pc' = "tables"
  /\ UNCHANGED <<b, m, c, v, y, g, l, k, i, p, h, w, x, u, tabs, ret>>

Finish ==
  /\ pc = "codes" /\ a = 0 /\ k = g
  /\ ret' = IF y # 0 /\ g # 1 THEN 1 ELSE 0
  /\ pc' = "done"
  /\ UNCHANGED <<b, m, c, v, y, g, l, k, a, i, p, h, w, x, u, tabs>>

(* Mutant of TableBits: never more bits than the current code needs.       *)
TableBitsLeast(at) == k - at

(* The bits of a new table: as few as k - w, more as long as codes of the  *)
(* lengths so far leave patterns over, up to z; a request beyond z is one  *)
(* bit more than it was.                                                   *)
TableBits(at) ==
  LET z  == IF g - at > l THEN l ELSE g - at
      j0 == k - at
      f[j \in 0 .. g - at] == IF j <= j0 THEN Shl[j0] - (a + 1) ELSE 2 * f[j - 1] - c[at + j]
  IN  IF f[j0] <= 0 THEN j0
      ELSE IF j0 + 1 >= z THEN j0 + 1
      ELSE Min({j \in (j0 + 1) .. z : j = z \/ f[j] <= 0})

NoEntry == [e |-> "unset", b |-> 0, v |-> Garbage, next |-> 0]

(* One more level for a code that does not fit: the table is allocated and *)
(* entered in the one above it.                                            *)
NewTable ==
  /\ pc = "tables" /\ k > w + l
  /\ h' = h + 1
  /\ w' = w + l
  /\ LET j == TableBits(w')
         table == [q \in 0 .. Shl[j] - 1 |-> NoEntry]
         link == [e |-> "table", b |-> l, v |-> Len(tabs) + 1, next |-> j]
     IN  /\ u' = [u EXCEPT ![h'] = Len(tabs) + 1]
         /\ IF h' = 0
            THEN tabs' = Append(tabs, table) /\ x' = x
            ELSE /\ tabs' = Append([tabs EXCEPT ![u[h]][i \div Shl[w]] = link], table)
                 /\ x' = [x EXCEPT ![h'] = i]
  /\ UNCHANGED <<b, m, c, v, y, g, l, k, a, i, p, pc, ret>>

(* Mutant of Entry: dummies are not marked.                                *)
EntryUnmarked ==
  [e |-> "code", b |-> k - w, v |-> IF p < Cardinality(Symbols) THEN v[p] ELSE Garbage, next |-> 0]

(* The entry for the code: beyond v it is marked unused.                   *)
Entry ==
  IF p < Cardinality(Symbols) THEN [e |-> "code", b |-> k - w, v |-> v[p], next |-> 0]
  ELSE [e |-> "unused", b |-> k - w, v |-> Garbage, next |-> 0]

(* The backwards increment, from the bit below len on: ones turn to zeros, *)
(* the first zero to one.  Its mutant starts a bit too far.                *)
Carry[len \in Nat] ==
  [code \in Nat |->
     IF len = 0 THEN code
     ELSE IF code >= Shl[len - 1] THEN Carry[len - 1][code - Shl[len - 1]]
     ELSE code + Shl[len - 1]]
IncrementBeyond(code, len) == Carry[len + 1][code]
Increment(code, len) == Carry[len][code]

(* Mutant of Fill: one place only.                                         *)
FillOnce(table) ==
  [q \in DOMAIN table |-> IF q = i \div Shl[w] THEN Entry ELSE table[q]]

(* Every place of the last table that begins with the code gets the entry. *)
Fill(table) ==
  [q \in DOMAIN table |->
     IF q % Shl[k - w] = i \div Shl[w] THEN Entry ELSE table[q]]

FillIn ==
  /\ pc = "tables" /\ k <= w + l
  /\ tabs' = [tabs EXCEPT ![Len(tabs)] = Fill(@)]
  /\ p' = IF p < Cardinality(Symbols) THEN p + 1 ELSE p
  /\ i' = Increment(i, k)
  /\ pc' = "backup"
  /\ UNCHANGED <<b, m, c, v, y, g, l, k, a, h, w, x, u, ret>>

(* Back over the tables the next code is not in.                           *)
BackUp ==
  /\ pc = "backup" /\ i % Shl[w] # x[h]
  /\ h' = h - 1
  /\ w' = w - l
  /\ UNCHANGED <<b, m, c, v, y, g, l, k, a, i, p, x, u, tabs, pc, ret>>

BackedUp ==
  /\ pc = "backup" /\ i % Shl[w] = x[h]
  /\ pc' = "codes"
  /\ UNCHANGED <<b, m, c, v, y, g, l, k, a, i, p, h, w, x, u, tabs, ret>>

Returned == pc = "done" /\ UNCHANGED vars

Next ==
  \/ NullInput \/ Oversubscribed \/ Prepare
  \/ NextLength \/ NextCode \/ Finish
  \/ NewTable \/ FillIn
  \/ BackUp \/ BackedUp
  \/ Returned

Spec == Init /\ [][Next]_vars
-----------------------------------------------------------------------------
(* The code deflate assigns (the algorithm at the head of lib/inflate.c    *)
(* and appnote.txt): codes of one length are consecutive in the order of   *)
(* their symbols, and follow those of the lengths before.                  *)
FirstCode[len \in Nat] == IF len <= 1 THEN 0 ELSE 2 * (FirstCode[len - 1] + Cardinal(len - 1))
CodeOf(s) == FirstCode[b[s]] + Cardinality({t \in Used : b[t] = b[s] /\ t < s})

(* A stream begins with the code of s, whose highest bit comes first.      *)
Reversed[len \in Nat] ==
  [code \in Nat |-> IF len = 0 THEN 0 ELSE (code % 2) * Shl[len - 1] + Reversed[len - 1][code \div 2]]
BeginsWith(stream, s) == stream % Shl[b[s]] = Reversed[b[s]][CodeOf(s)]

(* What inflate_codes() finds: lookup bits of the stream select the entry; *)
(* one that links to a table says how many bits go first.                  *)
Place(f) ==
  IF f.rest % Shl[f.bits] \in DOMAIN tabs[f.t] THEN tabs[f.t][f.rest % Shl[f.bits]] ELSE NoEntry
Follow(f) ==
  LET e == Place(f)
  IN IF e.e # "table" THEN f
     ELSE [t |-> e.v, bits |-> e.next, rest |-> f.rest \div Shl[e.b], used |-> f.used + e.b]
Decode(stream) ==
  LET at[j \in Nat] == IF j = 0 THEN [t |-> 1, bits |-> m, rest |-> stream, used |-> 0] ELSE Follow(at[j - 1])
  IN [Place(at[g]) EXCEPT !.b = @ + at[g].used]

Streams == 0 .. Shl[g] - 1
Built == pc = "done" /\ tabs # <<>>

(* Tables are at most two levels deep, or there are too few codes for one  *)
(* to need more than l bits.  The callers see to it: lookups of 9, 6 and 7 *)
(* bits for 286 codes of up to 15 bits, 30 of up to 15 and 19 of up to 7.  *)
NoGap == g <= 2 * l \/ Cardinality(Symbols) < Shl[l]

TypeOK ==
  /\ b \in LengthLists
  /\ m \in 0 .. BMAX /\ l \in 0 .. BMAX /\ g \in 0 .. BMAX /\ k \in 0 .. BMAX
  /\ y \in Nat /\ a \in Nat /\ i \in 0 .. Shl[g] - 1
  /\ p \in 0 .. Cardinality(Symbols)
  /\ h \in -1 .. (Len(tabs) - 1) /\ w \in -BMAX .. BMAX
  /\ pc \in {"count", "codes", "tables", "backup", "done"}
  /\ ret \in 0 .. 2

(* Tables that huft_build() calls a success decode every stream that       *)
(* begins with a code to its symbol, and use up exactly the code's bits    *)
(* (lib/inflate.c:274-488 against the lookups at 539-547 and 571-579).     *)
DecodesAsSpecified ==
  Built /\ ret = 0 /\ NoGap =>
    \A stream \in Streams : \A s \in Used :
      BeginsWith(stream, s) =>
        LET found == Decode(stream)
        IN  found.e = "code" /\ found.v = s /\ found.b = b[s]

(* The running code is the one of the symbol it is entered for, through    *)
(* every increment, change of length, new table and way back.              *)
EntersTheRightCode ==
  pc = "tables" /\ p < Cardinality(Used) =>
    /\ b[v[p]] = k
    /\ BeginsWith(i, v[p])
    /\ i < Shl[k]

(* A code's entry is written in the table of its level, never in one that  *)
(* is already finished: "don't need to update q" (lib/inflate.c:476).      *)
FillsTheOpenTable ==
  pc = "tables" /\ k <= w + l =>
    /\ u[h] = Len(tabs)
    /\ i \div Shl[w] \in DOMAIN tabs[Len(tabs)]
    /\ tabs[Len(tabs)][i \div Shl[w]].e = "unset"

(* A code that no symbol has is found to be one if every symbol has a code *)
(* and one table holds them all: what inflate_fixed(), which accepts the   *)
(* incomplete set of 30 distances, needs.                                  *)
UnusedCaught ==
  Built /\ ret < 2 /\ g = l /\ Used = Symbols =>
    \A stream \in Streams :
      (\A s \in Used : ~BeginsWith(stream, s)) => Decode(stream).e = "unused"
-----------------------------------------------------------------------------
(* lib/inflate.c:123-129: e == 99 "indicates an unused code.  If a code    *)
(* with e == 99 is looked up, this implies an error in the data" - in the  *)
(* tables huft_build() returns success for.                                *)
UnusedIsMarked ==
  Built /\ ret = 0 =>
    \A stream \in Streams :
      (\A s \in Used : ~BeginsWith(stream, s)) => Decode(stream).e = "unused"

(* lib/inflate.c:282-286: it returns "two if the input is invalid (all     *)
(* zero length codes or an oversubscribed set of lengths)".                *)
InvalidIsTwo ==
  pc = "done" => (ret = 2 <=> Used = {} \/ Spare < 0)

(* lib/inflate.c:282-283: "Given a list of code lengths and a maximum      *)
(* table size, make a set of tables to decode that set of codes".          *)
DecodesForAnySize ==
  Built /\ ret = 0 =>
    \A stream \in Streams : \A s \in Used :
      BeginsWith(stream, s) => Decode(stream).v = s
=============================================================================
