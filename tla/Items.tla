------------------------------- MODULE Items --------------------------------
(***************************************************************************)
(* What a buffer promises (hw2/include/buffer.h): it is a sequence of      *)
(* items with a cursor for nextitem.  Handing out the last item may end    *)
(* the iteration for good: par, which adds nothing once it iterates, never *)
(* sees the difference.  ret is what the last call returned, a value as a  *)
(* sequence of one.                                                        *)
(***************************************************************************)
EXTENDS Naturals, Sequences

CONSTANTS Item, Null, Failed

VARIABLES items, cursor, ret

End == Null                                 \* a cursor that is past everything

Init == items = <<>> /\ cursor = 0 /\ ret = Null

Additem(x) ==
  \/ items' = Append(items, x) /\ ret' = Null /\ UNCHANGED cursor
  \/ ret' = Failed /\ UNCHANGED <<items, cursor>>

Clearbuffer == items' = <<>> /\ ret' = Null /\ UNCHANGED cursor

Numitems == ret' = <<Len(items)>> /\ UNCHANGED <<items, cursor>>

Copyitems == ret' \in {items, Failed} /\ UNCHANGED <<items, cursor>>

Rewindbuffer == cursor' = 0 /\ ret' = Null /\ UNCHANGED items

Nextitem ==
  /\ UNCHANGED items
  /\ IF cursor # End /\ cursor < Len(items)
     THEN /\ ret' = <<items[cursor + 1]>>
          /\ \/ cursor' = cursor + 1
             \/ cursor + 1 = Len(items) /\ cursor' = End
     ELSE ret' = Null /\ UNCHANGED cursor

Next ==
  \/ \E x \in Item : Additem(x)
  \/ Clearbuffer \/ Numitems \/ Copyitems \/ Rewindbuffer \/ Nextitem

Spec == Init /\ [][Next]_<<items, cursor, ret>>
=============================================================================
