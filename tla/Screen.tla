------------------------------- MODULE Screen -------------------------------
(***************************************************************************)
(* The two ways the boot code writes on the screen: puts() and scroll() of *)
(* boot/compressed/misc.c, with the memcpy() and the cursor registers they *)
(* use, and myprint() and mypanic() of kernel/panic.c with their buffers.  *)
(* Video memory has a byte for the character and one for its attribute.    *)
(* raw_print() does not ask for the screen's address and size: it knows a  *)
(* colour screen of 80 columns and 25 rows or more.                        *)
(***************************************************************************)
EXTENDS Integers, Sequences, FiniteSetsExt, Functions

CONSTANTS
  lines, cols,
  RawRow, RawCols,  (* the 24 and the 80 of raw_print's 0xb8000 + 24*160   *)
  ByteBits,    (* bits of a cursor register                                *)
  Texts,       (* what is printed, "\n" included                           *)
  Messages,    (* what vsprintf makes of a message                         *)
  Buffers      (* the sizes of mymybuf and mybuf, the longer               *)

(* Only raw_print and the machine itself write attributes.                *)
Attributes == {"attribute", "0x07"}
Characters == (UNION {Range(text) : text \in Texts \union Messages}) \ Attributes

(* The size of the screen is told in two bytes, and no message has the     *)
(* zero that ends it within.  What is asked of the callers of myprint() and*)
(* mypanic(), of which src/ has none: the screen is one that raw_print     *)
(* knows, and the messages are shorter than a row and than the buffer, as  *)
(* nothing in the code checks.                                             *)
ScreenOK ==
  /\ {lines, cols} \subseteq Nat \ {0} /\ Buffers \subseteq Nat /\ Buffers # {}
  /\ Texts \union Messages \subseteq Seq(Characters) /\ \A text \in Messages : "0" \notin Range(text)
  /\ {RawRow, RawCols} \subseteq Nat /\ (Messages # {} => RawRow < lines /\ RawCols = cols)
  /\ \A text \in Messages : Len(text) + 4 <= cols /\ \A size \in Buffers : Len(text) + 4 < size
  /\ 2^ByteBits \in Nat /\ lines < 2^ByteBits /\ cols < 2^ByteBits

VARIABLES
  vidmem, y, s,
  x,           (* -1 between calls, -2 after a panic                       *)
  orig,        (* SCREEN_INFO.orig_x, orig_y                               *)
  cursor,      (* the registers 14 and 15                                  *)
  paper,       (* the rows a reader has before him                         *)
  buf          (* the buffer of the panic functions                        *)

vars == <<vidmem, x, y, s, orig, cursor, paper, buf>>

Size == 2 * lines * cols
Idle == s = <<>> /\ x = -1

(* The two bytes of a position.                                            *)
Bytes(pos) == <<(pos \div 2^ByteBits) % 2^ByteBits, pos % 2^ByteBits>>

Init ==
  /\ vidmem = [i \in 0 .. Size - 1 |-> IF i % 2 = 0 THEN "." ELSE "attribute"]
  /\ paper = [r \in 1..lines |-> [c \in 1..cols |-> "."]]
  /\ orig \in (0 .. cols - 1) \X (0 .. lines - 1)
  /\ x = -1 /\ y = -1 /\ s = <<>> /\ cursor = Bytes(orig[1] + cols * orig[2])
  /\ buf \in {[i \in 0 .. size - 1 |-> IF i < 2 THEN "[" ELSE "0"] : size \in Buffers}

(* Stores of what new holds; those outside would add addresses.            *)
Written(mem, new) ==
  [i \in DOMAIN mem \union DOMAIN new |-> IF i \in DOMAIN new THEN new[i] ELSE mem[i]]
Store(mem, i, c) == Written(mem, [j \in {i} |-> c])

(* memcpy, byte by byte upwards.                                           *)
memcpy(mem, dest, src, n) ==
  LET m[j \in 0 .. n] == IF j = 0 THEN mem
                          ELSE LET before == m[j - 1]
                               IN Store(before, dest + (j - 1), before[src + (j - 1)])
  IN m[n]

Blank(row) == [i \in {row * cols * 2 + 2 * j : j \in 0 .. cols - 1} |-> " "]

(* Mutant of scroll: the new line is a row behind.                         *)
scrollFar(mem) == Written(memcpy(mem, 0, cols * 2, (lines - 1) * cols * 2), Blank(lines))

scroll(mem) == Written(memcpy(mem, 0, cols * 2, (lines - 1) * cols * 2), Blank(lines - 1))

Puts(text) ==
  /\ Idle /\ s' = text /\ x' = orig[1] /\ y' = orig[2]
  /\ UNCHANGED <<vidmem, orig, cursor, paper, buf>>

(* For a reader: the paper is pulled up when its end is reached.           *)
Advance(rows, row) ==
  IF row + 1 >= lines THEN Append(Tail(rows), [c \in 1..cols |-> " "]) ELSE rows

(* x = 0; if (++y >= lines) { scroll(); y--; }                             *)
NewLine(mem) ==
  /\ x' = 0
  /\ y' = IF y + 1 >= lines THEN y ELSE y + 1
  /\ vidmem' = IF y + 1 >= lines THEN scroll(mem) ELSE mem

Feed ==
  /\ s # <<>> /\ Head(s) = "\n"
  /\ NewLine(vidmem)
  /\ paper' = Advance(paper, y)
  /\ s' = Tail(s) /\ UNCHANGED <<orig, cursor, buf>>

Type ==
  /\ s # <<>> /\ Head(s) # "\n"
  /\ LET mem == Store(vidmem, (x + cols * y) * 2, Head(s))
         rows == [paper EXCEPT ![y + 1][x + 1] = Head(s)]
     IN IF x + 1 >= cols
        THEN NewLine(mem) /\ paper' = Advance(rows, y)
        ELSE x' = x + 1 /\ y' = y /\ vidmem' = mem /\ paper' = rows
  /\ s' = Tail(s) /\ UNCHANGED <<orig, cursor, buf>>

(* The position is saved and given to the cursor in two bytes.             *)
Return ==
  /\ s = <<>> /\ x >= 0
  /\ orig' = <<x, y>>
  /\ cursor' = Bytes(x + cols * y)
  /\ x' = -1 /\ y' = -1
  /\ UNCHANGED <<vidmem, s, paper, buf>>

(* vsprintf into the buffer behind its brackets, and the closing ones.     *)
Framed(text) ==
  [i \in 2 .. Len(text) + 4 |->
     IF i < Len(text) + 2 THEN text[i - 1] ELSE IF i < Len(text) + 4 THEN "]" ELSE "0"]

(* mypanic stops: hlt for ever.                                            *)
Panics == \A size \in Buffers : 0 .. size - 1 \subseteq DOMAIN buf

(* raw_print up to the first zero, on its own row.                         *)
Message(text) ==
  /\ Idle
  /\ buf' = Written(buf, Framed(text))
  /\ LET length == Min({i \in DOMAIN buf' : buf'[i] = "0"})
         row == 2 * RawRow * RawCols
         put == [i \in row .. row + (2 * length - 1) |-> IF i % 2 = 0 THEN buf'[(i - row) \div 2] ELSE "0x07"]
         shown == <<"[", "[">> \o text \o <<"]", "]">>
     IN /\ vidmem' = Written(vidmem, put)
        /\ paper' = [paper EXCEPT ![RawRow + 1] = [c \in 1..cols |-> IF c <= Len(shown) THEN shown[c] ELSE @[c]]]
  /\ x' = IF Panics THEN -2 ELSE x
  /\ UNCHANGED <<y, s, orig, cursor>>

Next ==
  \/ \E text \in Texts : Puts(text)
  \/ \E text \in Messages : Message(text)
  \/ Feed \/ Type \/ Return

Spec == Init /\ [][Next]_vars
-----------------------------------------------------------------------------
(* Nothing is written outside video memory or the buffer, and no attribute *)
(* becomes a character (misc.c:117-149, panic.c:14-32).                    *)
Inside ==
  /\ DOMAIN vidmem = 0 .. Size - 1
  /\ \E size \in Buffers : DOMAIN buf = 0 .. size - 1
  /\ \A i \in DOMAIN vidmem : i % 2 = 1 <=> vidmem[i] \in Attributes

(* The screen shows the end of what was printed, wrapped at its width, the *)
(* cursor stands behind it, and a message shows whole after a longer one   *)
(* (misc.c:117-159, panic.c:4-41).                                         *)
ShowsText ==
  /\ \A r \in 0 .. lines - 1, c \in 0 .. cols - 1 :
       vidmem[2 * (cols * r + c)] = paper[r + 1][c + 1]
  /\ Idle => cursor[1] * 2^ByteBits + cursor[2] = orig[1] + cols * orig[2]
=============================================================================
