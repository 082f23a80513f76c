------------------------------ MODULE RTCPSDESInfo ------------------------------
(***************************************************************************)
(* RTCPSDESInfo, what is known of a source, and what RTPInternalSourceData *)
(* makes of the items it hears.  A text is a sequence, and no text is the  *)
(* empty one.  The private values are a list that grows at its front; the  *)
(* iterator curitem is the number of items from it to the end, which such  *)
(* a growth leaves alone.                                                  *)
(***************************************************************************)
EXTENDS Integers, Sequences

CONSTANT MaxPrivItems   \* RTP_MAXPRIVITEMS

ASSUME SDESInfoAssumption == MaxPrivItems \in Nat

KeptItem == {"CNAME", "NAME", "EMAIL", "TOOL"}
ReplacedItem == {"PHONE", "LOC", "NOTE"}

NewInfo == [items |-> [t \in KeptItem \cup ReplacedItem |-> <<>>], privitems |-> <<>>, curitem |-> 0]

\* SetNonPrivateItem; an empty text deletes it.
SetItem(info, t, data) == [info EXCEPT !.items[t] = data]

\* Mutant: prefixes are compared over the length of the stored one only.
SetValueOfBegun(info, prefix, value) ==
  LET Begins(p) == Len(p) <= Len(prefix) /\ p = SubSeq(prefix, 1, Len(p))
      found == {i \in DOMAIN info.privitems : Begins(info.privitems[i].prefix)}
  IN CASE found # {} ->
            [info EXCEPT !.privitems[CHOOSE i \in found : \A j \in found : i <= j].value = value]
       [] found = {} /\ Len(info.privitems) < MaxPrivItems ->
            [info EXCEPT !.privitems = <<[prefix |-> prefix, value |-> value]>> \o @]
       [] OTHER -> info

\* An item with this prefix takes the value; a new one is made if there is room.
SetPrivateValue(info, prefix, value) ==
  LET found == {i \in DOMAIN info.privitems : info.privitems[i].prefix = prefix}
  IN CASE found # {} ->
            [info EXCEPT !.privitems[CHOOSE i \in found : \A j \in found : i <= j].value = value]
       [] found = {} /\ Len(info.privitems) < MaxPrivItems ->
            [info EXCEPT !.privitems = <<[prefix |-> prefix, value |-> value]>> \o @]
       [] OTHER -> info

GotoFirstPrivateValue(info) == [info EXCEPT !.curitem = Len(info.privitems)]
HasNextPrivateValue(info) == info.curitem > 0
NextPrivateValue(info) == info.privitems[Len(info.privitems) - info.curitem + 1]
GetNextPrivateValue(info) == [info EXCEPT !.curitem = @ - 1]

\* ProcessSDESItem: who is speaking, and with which tool, is told once.
ProcessSDESItem(info, t, data) ==
  IF t \in KeptItem /\ info.items[t] # <<>> THEN info ELSE SetItem(info, t, data)

\* ProcessPrivateSDESItem: that there is no room is no error.
ProcessPrivateSDESItem(info, prefix, value) == SetPrivateValue(info, prefix, value)

=============================================================================
