------------------------------- MODULE WireBytes -------------------------------
(***************************************************************************)
(* Integers on the wire.  A byte is 0..Base-1 and a word is a number of    *)
(* bytes; both are smaller than the real ones, so that a word read with    *)
(* the wrong width, order or sign gives a wrong value here too.  Reading   *)
(* keeps a cursor: whether every read so far found its bytes, the position *)
(* behind the last one, and what it gave.  Models the byteorder crate,     *)
(* Node's Buffer and Soroban's Bytes as the code uses them.                *)
(***************************************************************************)
EXTENDS Integers, SequencesExt

CONSTANT Base      \* number of values of a byte

(* A byte has more than one value. *)
BaseAssumption == Base \in Nat /\ Base > 1

LE == "LE"
BE == "BE"

(* v, taken modulo the word, in w bytes. *)
Put(v, w, order) ==
  LET le == [i \in 1..w |-> (v \div Base ^ (i - 1)) % Base] IN
  IF order = LE THEN le ELSE Reverse(le)

Unsigned(bytes, order) ==
  LET be == IF order = BE THEN bytes ELSE Reverse(bytes)
      first[i \in 0..Len(be)] == IF i = 0 THEN 0 ELSE first[i - 1] * Base + be[i] IN
  first[Len(be)]

(* An unsigned word of w bytes reinterpreted as two's complement. *)
AsSigned(v, w) == IF 2 * v >= Base ^ w THEN v - Base ^ w ELSE v

Start == [ok |-> TRUE, pos |-> 0, val |-> <<>>]
Failed == [ok |-> FALSE, pos |-> 0, val |-> 0]

(* The next w bytes as they are, or a failure that stays a failure. *)
Take(data, c, w) ==
  IF c.ok /\ c.pos + w <= Len(data)
  THEN [ok |-> TRUE, pos |-> c.pos + w, val |-> SubSeq(data, c.pos + 1, c.pos + w)]
  ELSE Failed

AsInteger(taken, order) ==
  IF taken.ok THEN [taken EXCEPT !.val = Unsigned(@, order)] ELSE Failed

(* The next w bytes as an unsigned integer. *)
Read(data, c, w, order) == AsInteger(Take(data, c, w), order)

(* Step after step from c until Done. *)
Repeat(c, Step(_), Done(_)) ==
  LET RECURSIVE From(_)
      From(acc) == IF Done(acc) THEN acc ELSE From(Step(acc)) IN
  From(c)

(* What item read, behind what acc has read. *)
AppendItem(acc, item) ==
  IF item.ok THEN [item EXCEPT !.val = Append(acc.val, @)] ELSE Failed

(* n elements read one after the other by Item(cursor), as a sequence. *)
ReadMany(n, c, Item(_)) ==
  IF c.ok
  THEN Repeat([c EXCEPT !.val = <<>>], LAMBDA acc : AppendItem(acc, Item(acc)),
              LAMBDA acc : ~acc.ok \/ Len(acc.val) = n)
  ELSE Failed

(* Unsigned integers of the given widths, one after the other. *)
ReadWords(data, c, widths, order) ==
  ReadMany(Len(widths), c, LAMBDA acc : Read(data, acc, widths[Len(acc.val) + 1], order))

=============================================================================
