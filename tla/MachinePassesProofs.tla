-------------------------- MODULE MachinePassesProofs --------------------------
(***************************************************************************)
(* The address resolver, and the passes up to the program graph, for every    *)
(* program.                                                               *)
(*                                                                         *)
(* What holds between the passes is PassInv: behind CallSplitter a function    *)
(* has the blocks it leaves, which have the code it met, in its order.  So the *)
(* resolver is given the functions it is specified for, and its invariants     *)
(* hold of the passes (PassesImplementResolver).  The cycles and the waits of  *)
(* a block are followed from pass to pass, and from function to function, by   *)
(* TimesInv; that no instruction is charged less than the device takes rests   *)
(* on addresses that are exact (SilenceIsExact), on the distances           *)
(* between them being the sizes of the instructions (FetchesAreCovered), and   *)
(* on no access that can reach the FRAM being left out (DataIsCovered).       *)
(*                                                                         *)
(* FlattenSeq, the folds and the sums are unfolded with InductionLemmas.      *)
(***************************************************************************)
EXTENDS MachinePasses, InductionLemmas, SequenceTheorems

-----------------------------------------------------------------------------
(***************************************************************************)
(* The invariants of the address resolver, for every set of functions and     *)
(* every window.                                                           *)
(*                                                                         *)
(* Nothing is inductive by itself.  What is: the instructions still to come   *)
(* have no address (Fresh), the addresses given so far are those of entries    *)
(* behind the cursor (Traced), in a faithful function the cursor is not past   *)
(* the entry of any instruction to come (Behind), and as long as there is no   *)
(* warning one wrong address leaves the cursor behind some entry for good     *)
(* (Lagging), so that entries are left over at the end.                      *)
(***************************************************************************)

Shape == isFunction(F) /\ AddressTypeOK

Fresh == \A k \in DOMAIN F.code : k >= pos => F.code[k].id \notin DOMAIN InstructionAddress

Traced ==
  \A k \in DOMAIN F.code : resolved(k) =>
    \E r \in DOMAIN F.range : r < DumpIdx /\ addressOf(k) = F.range[r].addr

Behind ==
  Faithful(F) => \A k \in DOMAIN F.code : k >= pos /\ emitsCode(F.code[k]) => DumpIdx <= F.code[k].slot

wrong(k) == k < pos /\ emitsCode(F.code[k]) /\ addressOf(k) # trueAddress(k)

Lagging ==
  Faithful(F) /\ Warnings = 0 =>
    /\ \A k \in DOMAIN F.code : k < pos /\ emitsCode(F.code[k]) => resolved(k)
    /\ (\E k \in DOMAIN F.code : wrong(k)) =>
         \E j \in DOMAIN F.code : j < pos /\ emitsCode(F.code[j]) /\ F.code[j].slot >= DumpIdx

Ended == aligned => pos = Len(F.code) + 1 /\ (Warnings = 0 => DumpIdx = Len(F.range) + 1)

IInv ==
  /\ Shape /\ Fresh /\ Traced /\ AddressesIncrease
  /\ Behind /\ NeverAhead /\ DriftEndsAtAnchors
  /\ Lagging /\ Ended

-----------------------------------------------------------------------------
LEMMA InitiallyInv == Init => IInv
<1>1. SUFFICES ASSUME Init PROVE IInv
  OBVIOUS
<1>2. F.code = << >> /\ F.range = << >> /\ DOMAIN F.code = {} /\ DOMAIN F.range = {}
      /\ Len(F.code) = 0 /\ Len(F.range) = 0
  BY <1>1 DEF Init, noFunction
<1>3. isFunction(F)
  BY <1>2 DEF isFunction
<1>4. AddressTypeOK
  BY <1>1, <1>2 DEF Init, AddressTypeOK
<1>5. Fresh /\ Traced /\ AddressesIncrease /\ Behind /\ NeverAhead /\ DriftEndsAtAnchors /\ Lagging
  BY <1>2 DEF Fresh, Traced, AddressesIncrease, Behind, NeverAhead, DriftEndsAtAnchors, Lagging
<1>6. Ended
  BY <1>1, <1>2 DEF Ended, Init
<1> QED
  BY <1>3, <1>4, <1>5, <1>6 DEF IInv, Shape

(***************************************************************************)
(* A new function: nothing of it is resolved.                               *)
(***************************************************************************)
LEMMA EnterLemma == IInv /\ AlignFunction => IInv'
<1>1. SUFFICES ASSUME IInv, AlignFunction PROVE IInv'
  OBVIOUS
<1>2. PICK f \in Functions : enter(f)
  BY <1>1 DEF AlignFunction
<1>3. F' = f /\ pos' = 1 /\ DumpIdx' = 1 /\ Warnings' = 0 /\ InstructionAddress' = InstructionAddress
      /\ aligned' = FALSE
  BY <1>1, <1>2 DEF enter, AlignFunction
<1>4. isFunction(f)
  BY <1>2, FunctionsAssumption
<1>5. \A k \in DOMAIN f.code : f.code[k].id \notin DOMAIN InstructionAddress
  BY <1>2 DEF enter
<1>6. DOMAIN f.code = 1 .. Len(f.code) /\ Len(f.code) \in Nat /\ DOMAIN f.range = 1 .. Len(f.range)
      /\ Len(f.range) \in Nat
  BY <1>4 DEF isFunction
<1>7. Shape'
  <2>1. isFunction(F)'
    BY <1>3, <1>4 DEF isFunction
  <2>2. Len(F'.code) \in Nat /\ Len(F'.range) \in Nat
    BY <1>3, <1>6
  <2>3. AddressTypeOK'
    <3>1. 1 \in 1 .. Len(F'.code) + 1 /\ 1 \in 1 .. Len(F'.range) + 1
      BY <2>2
    <3> QED
      BY <1>3, <3>1 DEF AddressTypeOK
  <2> QED
    BY <2>1, <2>3 DEF Shape
<1>8. \A k \in DOMAIN F'.code : ~(resolved(k)') /\ ~(k < pos')
  BY <1>3, <1>5, <1>6 DEF resolved
<1>9. Fresh' /\ Traced' /\ AddressesIncrease' /\ NeverAhead' /\ DriftEndsAtAnchors'
  BY <1>3, <1>5, <1>8 DEF Fresh, Traced, AddressesIncrease, NeverAhead, DriftEndsAtAnchors
<1>10. Behind'
  BY <1>3, <1>6 DEF Behind, Faithful
<1>11. Lagging'
  BY <1>3, <1>8 DEF Lagging, wrong
<1>12. Ended'
  BY <1>3 DEF Ended
<1> QED
  BY <1>7, <1>9, <1>10, <1>11, <1>12 DEF IInv

(***************************************************************************)
(* An instruction that gets no address: a directive, or one past the end.     *)
(***************************************************************************)
LEMMA PassLemma ==
  ASSUME IInv, atInstruction, pos' = pos + 1, UNCHANGED <<F, DumpIdx, InstructionAddress, aligned>>,
         Warnings' \in {Warnings, Warnings + 1},
         emitsCode(mi) => Warnings' = Warnings + 1
  PROVE  IInv'
<1> USE DEF atInstruction, mi
<1>1. isFunction(F) /\ pos \in DOMAIN F.code /\ pos \in Nat /\ Warnings \in Nat
  BY DEF IInv, Shape, AddressTypeOK, isFunction
<1>2. Shape'
  <2>1. isFunction(F)'
    BY <1>1 DEF isFunction
  <2>2. AddressTypeOK'
    BY <1>1 DEF IInv, Shape, AddressTypeOK, isFunction
  <2> QED
    BY <2>1, <2>2 DEF Shape
<1>3. \A k \in DOMAIN F.code : k \in Nat
  BY <1>1 DEF isFunction
<1>4. F.code[pos].id \notin DOMAIN InstructionAddress
  BY <1>1 DEF IInv, Fresh
<1>5. \A k \in DOMAIN F.code : (resolved(k)' <=> resolved(k)) /\ addressOf(k)' = addressOf(k)
                              /\ trueAddress(k)' = trueAddress(k)
  BY <1>1, <1>3, <1>4 DEF resolved, addressOf, trueAddress
<1>6. Fresh'
  BY <1>1, <1>3 DEF IInv, Fresh
<1>7. Traced'
  BY <1>5 DEF IInv, Traced
<1>8. AddressesIncrease'
  BY <1>5 DEF IInv, AddressesIncrease
<1>9. Behind'
  BY <1>1, <1>3 DEF IInv, Behind
<1>10. NeverAhead'
  BY <1>5 DEF IInv, NeverAhead
<1>11. DriftEndsAtAnchors'
  BY <1>5 DEF IInv, DriftEndsAtAnchors, endsDrift
<1>12. Lagging'
  <2>1. SUFFICES ASSUME Faithful(F), Warnings' = 0 PROVE
          /\ \A k \in DOMAIN F.code : k < pos' /\ emitsCode(F.code[k]) => resolved(k)
          /\ (\E k \in DOMAIN F.code : wrong(k)') =>
               \E j \in DOMAIN F.code : j < pos' /\ emitsCode(F.code[j]) /\ F.code[j].slot >= DumpIdx
    BY <1>5 DEF Lagging
  <2>2. Warnings = 0 /\ ~emitsCode(F.code[pos])
    BY <1>1, <2>1
  <2>3. \A k \in DOMAIN F.code : k < pos' /\ emitsCode(F.code[k]) => k < pos
    BY <1>1, <1>3, <2>2
  <2>4. \A k \in DOMAIN F.code : wrong(k)' => wrong(k)
    BY <1>5, <2>3 DEF wrong
  <2>5. \A j \in DOMAIN F.code : j < pos => j < pos'
    BY <1>1, <1>3
  <2> QED
    BY <2>1, <2>2, <2>3, <2>4, <2>5 DEF IInv, Lagging
<1>13. Ended'
  BY DEF Ended
<1> QED
  BY <1>2, <1>6, <1>7, <1>8, <1>9, <1>10, <1>11, <1>12, <1>13 DEF IInv

(***************************************************************************)
(* An instruction that gets the address of entry r, which is the next one, or  *)
(* a later one with a warning.  In a faithful function r is not past its own   *)
(* entry, and it is its own unless drift could not end there.                *)
(***************************************************************************)
LEMMA AssignLemma ==
  ASSUME IInv, takesNext, NEW r \in DOMAIN F.range, r >= DumpIdx, assign(r),
         pos' = pos + 1, UNCHANGED <<F, aligned>>, Warnings' \in {Warnings, Warnings + 1},
         r # DumpIdx => Warnings' = Warnings + 1,
         Faithful(F) /\ emitsCode(mi) =>
           /\ r <= mi.slot
           /\ r # mi.slot /\ endsDrift(mi, r) => mi.slot > r + ResyncWindow
  PROVE  IInv'
<1> USE DEF takesNext, atInstruction, mi
<1>1. isFunction(F) /\ pos \in DOMAIN F.code /\ pos \in Nat /\ Warnings \in Nat
      /\ r \in Nat /\ DumpIdx \in Nat /\ DOMAIN F.range = 1 .. Len(F.range) /\ Len(F.range) \in Nat
  BY DEF IInv, Shape, AddressTypeOK, isFunction
<1>2. \A k \in DOMAIN F.code : k \in Nat
  BY <1>1 DEF isFunction
<1>3. \A q \in DOMAIN F.range : q \in Nat
  BY <1>1
<1>4. DumpIdx' = r + 1
      /\ InstructionAddress' = [x \in DOMAIN InstructionAddress \cup {F.code[pos].id} |->
            IF x = F.code[pos].id THEN F.range[r].addr ELSE InstructionAddress[x]]
  BY DEF assign, setInstructionAddress
<1>5. Shape'
  <2>1. isFunction(F)'
    BY <1>1 DEF isFunction
  <2>2. AddressTypeOK'
    BY <1>1, <1>4 DEF IInv, Shape, AddressTypeOK, isFunction
  <2> QED
    BY <2>1, <2>2 DEF Shape
<1>6. F.code[pos].id \notin DOMAIN InstructionAddress
  BY <1>1 DEF IInv, Fresh
<1>7. \A k \in DOMAIN F.code : k # pos => F.code[k].id # F.code[pos].id
  BY <1>1 DEF isFunction
<1>8. \A k \in DOMAIN F.code : k # pos => (resolved(k)' <=> resolved(k))
  BY <1>1, <1>2, <1>4, <1>7 DEF resolved
<1>9. \A k \in DOMAIN F.code : resolved(k) => k # pos /\ addressOf(k)' = addressOf(k)
  BY <1>1, <1>2, <1>4, <1>6, <1>7 DEF resolved, addressOf
<1>10. \A k \in DOMAIN F.code : k = pos => resolved(k)' /\ addressOf(k)' = F.range[r].addr
  BY <1>1, <1>4 DEF resolved, addressOf
<1>11. \A k \in DOMAIN F.code : trueAddress(k)' = trueAddress(k)
  BY DEF trueAddress
<1>12. Fresh'
  <2>1. SUFFICES ASSUME NEW k \in DOMAIN F.code, k >= pos + 1
                 PROVE  F.code[k].id \notin DOMAIN InstructionAddress'
    BY DEF Fresh
  <2>2. k >= pos /\ k # pos
    BY <1>1, <1>2, <2>1
  <2> QED
    BY <1>4, <1>7, <2>2 DEF IInv, Fresh
<1>13. Traced'
  <2>1. SUFFICES ASSUME NEW k \in DOMAIN F.code, resolved(k)'
                 PROVE  \E q \in DOMAIN F.range : q < DumpIdx' /\ addressOf(k)' = F.range[q].addr
    BY DEF Traced
  <2>2. CASE k = pos
    BY <1>1, <1>4, <1>10, <2>2
  <2>3. CASE k # pos
    <3>1. resolved(k)
      BY <1>8, <2>1, <2>3
    <3>2. PICK q \in DOMAIN F.range : q < DumpIdx /\ addressOf(k) = F.range[q].addr
      BY <3>1 DEF IInv, Traced
    <3>3. q < DumpIdx'
      BY <1>1, <1>3, <1>4, <3>2
    <3> QED
      BY <1>9, <3>1, <3>2, <3>3
  <2> QED
    BY <2>2, <2>3
<1>14. AddressesIncrease'
  <2>1. SUFFICES ASSUME NEW j \in DOMAIN F.code, NEW k \in DOMAIN F.code, resolved(j)', resolved(k)', j < k
                 PROVE  addressOf(j)' < addressOf(k)'
    BY DEF AddressesIncrease
  <2>2. j # pos
    BY <1>1, <1>2, <2>1 DEF resolved
  <2>3. resolved(j) /\ addressOf(j)' = addressOf(j)
    BY <1>8, <1>9, <2>1, <2>2
  <2>4. CASE k # pos
    BY <1>8, <1>9, <2>1, <2>3, <2>4 DEF IInv, AddressesIncrease
  <2>5. CASE k = pos
    <3>1. PICK q \in DOMAIN F.range : q < DumpIdx /\ addressOf(j) = F.range[q].addr
      BY <2>3 DEF IInv, Traced
    <3>2. q < r
      BY <1>1, <1>3, <3>1
    <3>3. F.range[q].addr < F.range[r].addr
      BY <1>1, <3>2 DEF isFunction
    <3> QED
      BY <1>10, <2>3, <2>5, <3>1, <3>3
  <2> QED
    BY <2>4, <2>5
<1>15. ASSUME Faithful(F)
       PROVE  \A k \in DOMAIN F.code : emitsCode(F.code[k]) => F.code[k].slot \in DOMAIN F.range
  BY <1>15 DEF Faithful
<1>16. ASSUME Faithful(F)
       PROVE  emitsCode(mi)
  BY <1>1, <1>16 DEF Faithful, emitsCode, isCodeEmitting
<1>17. Behind'
  <2>1. SUFFICES ASSUME Faithful(F), NEW k \in DOMAIN F.code, k >= pos + 1, emitsCode(F.code[k])
                 PROVE  r + 1 <= F.code[k].slot
    BY <1>4 DEF Behind
  <2>2. pos < k
    BY <1>1, <1>2, <2>1
  <2>3. F.code[pos].slot < F.code[k].slot
    BY <1>1, <1>16, <2>1, <2>2 DEF Faithful
  <2>4. r <= F.code[pos].slot
    BY <1>16, <2>1
  <2>5. F.code[pos].slot \in Nat /\ F.code[k].slot \in Nat
    BY <1>1, <1>3, <1>15, <1>16, <2>1
  <2> QED
    BY <1>1, <2>3, <2>4, <2>5
<1>18. NeverAhead'
  <2>1. SUFFICES ASSUME Faithful(F), NEW k \in DOMAIN F.code, emitsCode(F.code[k]), resolved(k)'
                 PROVE  addressOf(k)' <= trueAddress(k)
    BY <1>11 DEF NeverAhead
  <2>2. CASE k # pos
    BY <1>8, <1>9, <2>1, <2>2 DEF IInv, NeverAhead
  <2>3. CASE k = pos
    <3>1. F.code[pos].slot \in DOMAIN F.range /\ r <= F.code[pos].slot
      BY <1>1, <1>15, <1>16, <2>1
    <3>2. F.range[r].addr \in Nat /\ F.range[F.code[pos].slot].addr \in Nat
      BY <1>1, <3>1 DEF isFunction
    <3>3. CASE r = F.code[pos].slot
      BY <1>10, <2>3, <3>2, <3>3 DEF trueAddress
    <3>4. CASE r < F.code[pos].slot
      <4>1. F.range[r].addr < F.range[F.code[pos].slot].addr
        BY <1>1, <3>1, <3>4 DEF isFunction
      <4>2. addressOf(k)' = F.range[r].addr /\ trueAddress(k) = F.range[F.code[pos].slot].addr
        BY <1>10, <2>3 DEF trueAddress
      <4> QED
        BY <3>2, <4>1, <4>2
    <3> QED
      BY <1>1, <1>3, <3>1, <3>3, <3>4
  <2> QED
    BY <2>2, <2>3
<1>19. DriftEndsAtAnchors'
  <2>1. SUFFICES ASSUME Faithful(F), NEW k \in DOMAIN F.code, emitsCode(F.code[k]), resolved(k)'
                 PROVE  \E q \in DOMAIN F.range :
                          /\ addressOf(k)' = F.range[q].addr
                          /\ q # F.code[k].slot /\ endsDrift(F.code[k], q) => F.code[k].slot > q + ResyncWindow
    BY DEF DriftEndsAtAnchors, endsDrift
  <2>2. CASE k # pos
    BY <1>8, <1>9, <2>1, <2>2 DEF IInv, DriftEndsAtAnchors
  <2>3. CASE k = pos
    BY <1>10, <1>16, <2>1, <2>3
  <2> QED
    BY <2>2, <2>3
<1>20. Lagging'
  <2>1. SUFFICES ASSUME Faithful(F), Warnings' = 0 PROVE
          /\ \A k \in DOMAIN F.code : k < pos + 1 /\ emitsCode(F.code[k]) => resolved(k)'
          /\ (\E k \in DOMAIN F.code : wrong(k)') =>
               \E j \in DOMAIN F.code : j < pos + 1 /\ emitsCode(F.code[j]) /\ F.code[j].slot >= r + 1
    BY <1>4 DEF Lagging
  <2>2. Warnings = 0 /\ r = DumpIdx
    BY <1>1, <2>1
  <2>3. \A k \in DOMAIN F.code : k < pos + 1 => k < pos \/ k = pos
    BY <1>1, <1>2
  <2>4. \A k \in DOMAIN F.code : k < pos /\ emitsCode(F.code[k]) => resolved(k) /\ resolved(k)'
    BY <1>1, <1>2, <1>8, <2>1, <2>2 DEF IInv, Lagging
  <2>5. \A k \in DOMAIN F.code : k < pos + 1 /\ emitsCode(F.code[k]) => resolved(k)'
    BY <1>10, <2>3, <2>4
  <2>6. ASSUME NEW k \in DOMAIN F.code, wrong(k)'
        PROVE  \E j \in DOMAIN F.code : j < pos + 1 /\ emitsCode(F.code[j]) /\ F.code[j].slot >= r + 1
    <3>1. emitsCode(F.code[k]) /\ (k < pos \/ k = pos)
      BY <2>3, <2>6 DEF wrong
    <3>2. F.code[pos].slot \in Nat /\ F.code[pos].slot \in DOMAIN F.range /\ emitsCode(F.code[pos])
          /\ r <= F.code[pos].slot /\ pos < pos + 1
      BY <1>1, <1>3, <1>15, <1>16, <2>1
    <3>3. CASE k = pos
      <4>1. F.code[pos].slot # r
        BY <1>10, <2>6, <3>3 DEF wrong, trueAddress
      <4>2. F.code[pos].slot >= r + 1
        BY <1>1, <3>2, <4>1
      <4> QED
        BY <1>1, <3>2, <4>2
    <3>4. CASE k < pos
      <4>1. wrong(k)
        BY <1>9, <1>11, <2>4, <2>6, <3>1, <3>4 DEF wrong
      <4>2. PICK j \in DOMAIN F.code : j < pos /\ emitsCode(F.code[j]) /\ F.code[j].slot >= DumpIdx
        BY <2>1, <2>2, <4>1 DEF IInv, Lagging
      <4>3. F.code[j].slot < F.code[pos].slot
        BY <1>1, <2>1, <3>2, <4>2 DEF Faithful
      <4>4. F.code[j].slot \in Nat
        BY <1>3, <1>15, <2>1, <4>2
      <4>5. F.code[pos].slot >= r + 1
        BY <1>1, <2>2, <3>2, <4>2, <4>3, <4>4
      <4> QED
        BY <1>1, <3>2, <4>5
    <3> QED
      BY <3>1, <3>3, <3>4
  <2> QED
    BY <2>5, <2>6
<1>21. Ended'
  BY DEF Ended
<1> QED
  BY <1>5, <1>12, <1>13, <1>14, <1>17, <1>18, <1>19, <1>20, <1>21 DEF IInv

-----------------------------------------------------------------------------
LEMMA NextEntryLemma ==
  ASSUME IInv, takesNext
  PROVE  /\ DumpIdx \in DOMAIN F.range /\ DumpIdx \in Nat /\ pos \in DOMAIN F.code
         /\ \A r \in DOMAIN F.range : r \in Nat /\ r <= Len(F.range)
         /\ Faithful(F) /\ emitsCode(mi) => mi.slot \in DOMAIN F.range /\ DumpIdx <= mi.slot
<1>1. isFunction(F) /\ pos \in DOMAIN F.code /\ DumpIdx \in DOMAIN F.range /\ DumpIdx \in Nat
      /\ DOMAIN F.range = 1 .. Len(F.range) /\ Len(F.range) \in Nat /\ pos >= pos
  BY DEF IInv, Shape, AddressTypeOK, isFunction, takesNext, atInstruction
<1>2. Faithful(F) /\ emitsCode(mi) => mi.slot \in DOMAIN F.range
  BY <1>1 DEF Faithful, mi
<1>3. Faithful(F) /\ emitsCode(mi) => DumpIdx <= mi.slot
  BY <1>1 DEF IInv, Behind, mi
<1> QED
  BY <1>1, <1>2, <1>3

LEMMA AssignNextLemma == IInv /\ AssignNext => IInv'
<1>1. SUFFICES ASSUME IInv, AssignNext PROVE IInv'
  OBVIOUS
<1>2. takesNext /\ ~drifted /\ assign(DumpIdx) /\ pos' = pos + 1 /\ UNCHANGED <<F, aligned>> /\ Warnings' = Warnings
  BY <1>1 DEF AssignNext
<1>3. DumpIdx \in DOMAIN F.range /\ DumpIdx >= DumpIdx
  BY <1>1, <1>2, NextEntryLemma
<1>4. ~endsDrift(mi, DumpIdx)
  BY <1>2 DEF drifted, isUsableAnchor, endsDrift
<1>5. Faithful(F) /\ emitsCode(mi) =>
        /\ DumpIdx <= mi.slot
        /\ DumpIdx # mi.slot /\ endsDrift(mi, DumpIdx) => mi.slot > DumpIdx + ResyncWindow
  BY <1>1, <1>2, <1>4, NextEntryLemma
<1> QED
  BY <1>1, <1>2, <1>3, <1>5, AssignLemma

(***************************************************************************)
(* A drifted anchor finds its own entry if that is in the window.            *)
(***************************************************************************)
LEMMA WindowLemma ==
  ASSUME IInv, takesNext, drifted, Faithful(F), emitsCode(mi)
  PROVE  mi.slot \in matches \/ mi.slot > DumpIdx + ResyncWindow
<1>1. /\ DumpIdx \in Nat /\ mi.slot \in DOMAIN F.range /\ DumpIdx <= mi.slot
      /\ mi.slot \in Nat /\ mi.slot <= Len(F.range) /\ pos \in DOMAIN F.code
  BY NextEntryLemma
<1>2. F.range[mi.slot].bytes = mi.enc.bytes
  BY <1>1 DEF Faithful, mi, drifted, isUsableAnchor
<1>3. mi.slot # DumpIdx
  BY <1>2 DEF drifted
<1> QED
  BY <1>1, <1>2, <1>3, WindowAssumption DEF matches

LEMMA ResyncLemma == IInv /\ Resync => IInv'
<1>1. SUFFICES ASSUME IInv, Resync PROVE IInv'
  OBVIOUS
<1>2. PICK k \in matches : (\A j \in matches : k <= j) /\ assign(k)
  BY <1>1 DEF Resync
<1>3. takesNext /\ drifted /\ pos' = pos + 1 /\ UNCHANGED <<F, aligned>> /\ Warnings' = Warnings + 1
  BY <1>1 DEF Resync
<1>4. DumpIdx \in Nat
  BY <1>1, <1>3, NextEntryLemma
<1>5. k \in Nat /\ k >= DumpIdx /\ k <= DumpIdx + ResyncWindow /\ k <= Len(F.range) /\ k >= 1
      /\ F.range[k].bytes = mi.enc.bytes
  BY <1>2, <1>4, WindowAssumption DEF matches
<1>6. k \in DOMAIN F.range
  BY <1>1, <1>5 DEF IInv, Shape, isFunction
<1>7. ASSUME Faithful(F), emitsCode(mi)
      PROVE  k <= mi.slot
  <2>1. mi.slot \in Nat
    BY <1>1, <1>3, <1>7, NextEntryLemma
  <2>2. mi.slot \in matches \/ mi.slot > DumpIdx + ResyncWindow
    BY <1>1, <1>3, <1>7, WindowLemma
  <2> QED
    BY <1>2, <1>4, <1>5, <2>1, <2>2, WindowAssumption
<1>8. ~endsDrift(mi, k)
  BY <1>5 DEF endsDrift
<1> QED
  BY <1>1, <1>2, <1>3, <1>5, <1>6, <1>7, <1>8, AssignLemma

LEMMA MismatchLemma == IInv /\ Mismatch => IInv'
<1>1. SUFFICES ASSUME IInv, Mismatch PROVE IInv'
  OBVIOUS
<1>2. takesNext /\ drifted /\ matches = {} /\ assign(DumpIdx) /\ pos' = pos + 1 /\ UNCHANGED <<F, aligned>>
      /\ Warnings' = Warnings + 1
  BY <1>1 DEF Mismatch
<1>3. DumpIdx \in DOMAIN F.range /\ DumpIdx >= DumpIdx
  BY <1>1, <1>2, NextEntryLemma
<1>4. ASSUME Faithful(F), emitsCode(mi)
      PROVE  DumpIdx <= mi.slot /\ mi.slot > DumpIdx + ResyncWindow
  <2>1. DumpIdx <= mi.slot
    BY <1>1, <1>2, <1>4, NextEntryLemma
  <2>2. mi.slot \in matches \/ mi.slot > DumpIdx + ResyncWindow
    BY <1>1, <1>2, <1>4, WindowLemma
  <2> QED
    BY <1>2, <2>1, <2>2
<1> QED
  BY <1>1, <1>2, <1>3, <1>4, AssignLemma

(***************************************************************************)
(* At the end everything may be left over but not unnoticed.                *)
(***************************************************************************)
LEMMA FinishLemma == IInv /\ Finish => IInv'
<1>1. SUFFICES ASSUME IInv, Finish PROVE IInv'
  OBVIOUS
<1>2. /\ UNCHANGED <<F, pos, DumpIdx, InstructionAddress>>
      /\ aligned' = TRUE /\ pos = Len(F.code) + 1
      /\ Warnings' = IF DumpIdx # Len(F.range) + 1 THEN Warnings + 1 ELSE Warnings
  BY <1>1 DEF Finish
<1>3. Warnings \in Nat /\ isFunction(F)
  BY <1>1 DEF IInv, Shape, AddressTypeOK
<1>4. Shape'
  <2>1. isFunction(F)'
    BY <1>2, <1>3 DEF isFunction
  <2>2. AddressTypeOK'
    BY <1>1, <1>2, <1>3 DEF IInv, Shape, AddressTypeOK
  <2> QED
    BY <2>1, <2>2 DEF Shape
<1>5. \A k \in DOMAIN F.code : (resolved(k)' <=> resolved(k)) /\ addressOf(k)' = addressOf(k)
                              /\ trueAddress(k)' = trueAddress(k) /\ (wrong(k)' <=> wrong(k))
  BY <1>2 DEF resolved, addressOf, trueAddress, wrong
<1>6. Fresh' /\ Traced' /\ AddressesIncrease' /\ Behind' /\ NeverAhead' /\ DriftEndsAtAnchors'
  BY <1>1, <1>2, <1>5
     DEF IInv, Fresh, Traced, AddressesIncrease, Behind, NeverAhead, DriftEndsAtAnchors, endsDrift
<1>7. Warnings' = 0 => Warnings = 0 /\ DumpIdx = Len(F.range) + 1
  BY <1>2, <1>3
<1>8. Lagging'
  BY <1>1, <1>2, <1>5, <1>7 DEF IInv, Lagging
<1>9. Ended'
  BY <1>2, <1>7 DEF Ended
<1> QED
  BY <1>4, <1>6, <1>8, <1>9 DEF IInv

LEMMA SkipLemma == IInv /\ (SkipDirective \/ RunOut) => IInv'
<1>1. SUFFICES ASSUME IInv, SkipDirective \/ RunOut PROVE IInv'
  OBVIOUS
<1>2. /\ atInstruction /\ pos' = pos + 1
      /\ UNCHANGED <<F, DumpIdx, InstructionAddress, aligned>>
      /\ Warnings' \in {Warnings, Warnings + 1}
      /\ emitsCode(mi) => Warnings' = Warnings + 1
  BY <1>1 DEF SkipDirective, RunOut, isCodeEmitting, emitsCode
<1> QED
  BY <1>1, <1>2, PassLemma

LEMMA StutterLemma == IInv /\ UNCHANGED avars => IInv'
<1>1. SUFFICES ASSUME IInv, UNCHANGED avars PROVE IInv'
  OBVIOUS
<1>2. UNCHANGED <<F, pos, DumpIdx, InstructionAddress, Warnings, aligned>>
  BY <1>1 DEF avars
<1>3. Shape'
  <2>1. isFunction(F)'
    BY <1>1, <1>2 DEF IInv, Shape, isFunction
  <2>2. AddressTypeOK'
    BY <1>1, <1>2 DEF IInv, Shape, AddressTypeOK
  <2> QED
    BY <2>1, <2>2 DEF Shape
<1>4. \A k \in DOMAIN F.code : (resolved(k)' <=> resolved(k)) /\ addressOf(k)' = addressOf(k)
                              /\ trueAddress(k)' = trueAddress(k) /\ (wrong(k)' <=> wrong(k))
  BY <1>2 DEF resolved, addressOf, trueAddress, wrong
<1>5. Fresh' /\ Traced' /\ AddressesIncrease' /\ Behind' /\ NeverAhead' /\ DriftEndsAtAnchors'
  BY <1>1, <1>2, <1>4
     DEF IInv, Fresh, Traced, AddressesIncrease, Behind, NeverAhead, DriftEndsAtAnchors, endsDrift
<1>6. Lagging' /\ Ended'
  BY <1>1, <1>2, <1>4 DEF IInv, Lagging, Ended
<1> QED
  BY <1>3, <1>5, <1>6 DEF IInv

\* The inductive invariant holds for every set of functions and every window.
THEOREM ResolverInvariant == Spec => []IInv
<1>1. IInv /\ [Next]_avars => IInv'
  BY EnterLemma, SkipLemma, AssignNextLemma, ResyncLemma, MismatchLemma, FinishLemma, StutterLemma
     DEF Next, Align
<1> QED
  BY <1>1, InitiallyInv, PTL DEF Spec

(***************************************************************************)
(* The cursors stay in their ranges.                                        *)
(***************************************************************************)
THEOREM ResolverTypes == Spec => []AddressTypeOK
<1>1. IInv => AddressTypeOK
  BY DEF IInv, Shape
<1> QED
  BY <1>1, ResolverInvariant, PTL

(***************************************************************************)
(* No two instructions share an address and the order of the code is that of  *)
(* the addresses, whatever the encoder and the linker did.                  *)
(***************************************************************************)
THEOREM ResolverOrders == Spec => []AddressesIncrease
<1>1. IInv => AddressesIncrease
  BY DEF IInv
<1> QED
  BY <1>1, ResolverInvariant, PTL

(***************************************************************************)
(* In a faithful function no address is too high.                           *)
(***************************************************************************)
THEOREM ResolverNeverAhead == Spec => []NeverAhead
<1>1. IInv => NeverAhead
  BY DEF IInv
<1> QED
  BY <1>1, ResolverInvariant, PTL

(***************************************************************************)
(* In a faithful function an anchor ends the drift unless its entry is out of  *)
(* the window.                                                              *)
(***************************************************************************)
THEOREM ResolverRecovers == Spec => []DriftEndsAtAnchors
<1>1. IInv => DriftEndsAtAnchors
  BY DEF IInv
<1> QED
  BY <1>1, ResolverInvariant, PTL

(***************************************************************************)
(* A faithful function aligned without a warning has the true addresses: one   *)
(* wrong address would leave the cursor short of the end.                    *)
(***************************************************************************)
THEOREM SilenceIsExact == Spec => []SilentMeansExact
<1>1. ASSUME IInv, Faithful(F), aligned, Warnings = 0, NEW k \in DOMAIN F.code, emitsCode(F.code[k])
      PROVE  resolved(k) /\ addressOf(k) = trueAddress(k)
  <2>1. isFunction(F) /\ pos = Len(F.code) + 1 /\ DumpIdx = Len(F.range) + 1
    BY <1>1 DEF IInv, Shape, Ended
  <2>2. k < pos
    BY <2>1 DEF isFunction
  <2>3. \A j \in DOMAIN F.code : emitsCode(F.code[j]) => ~(F.code[j].slot >= DumpIdx)
    BY <1>1, <2>1 DEF Faithful, isFunction
  <2>4. ~wrong(k)
    BY <1>1, <2>3 DEF IInv, Lagging
  <2> QED
    BY <1>1, <2>2, <2>4 DEF IInv, Lagging, wrong
<1>2. IInv => SilentMeansExact
  BY <1>1 DEF SilentMeansExact
<1> QED
  BY <1>2, ResolverInvariant, PTL

-----------------------------------------------------------------------------
(***************************************************************************)
(* With one entry for each instruction the resolver never loses its place:    *)
(* the entries from the cursor on belong to the instructions to come (Even),   *)
(* so the next entry is that of the next instruction.                        *)
(***************************************************************************)
Exact == \A k \in DOMAIN F.code : k < pos /\ emitsCode(F.code[k]) => resolved(k) /\ addressOf(k) = trueAddress(k)

Even ==
  OneToOne(F) =>
    /\ Exact
    /\ \A r \in DOMAIN F.range : r >= DumpIdx =>
         \E k \in DOMAIN F.code : k >= pos /\ emitsCode(F.code[k]) /\ F.code[k].slot = r

LEMMA NextIsItsOwn ==
  ASSUME IInv, Even, OneToOne(F), atInstruction, isCodeEmitting(mi)
  PROVE  /\ emitsCode(mi) /\ DumpIdx = mi.slot /\ DumpIdx \in DOMAIN F.range
         /\ ~drifted
<1>1. isFunction(F) /\ pos \in DOMAIN F.code /\ pos \in Nat /\ DumpIdx \in Nat /\ Faithful(F)
      /\ DOMAIN F.range = 1 .. Len(F.range) /\ Len(F.range) \in Nat /\ \A k \in DOMAIN F.code : k \in Nat
  BY DEF IInv, Shape, AddressTypeOK, isFunction, atInstruction, OneToOne
<1>2. emitsCode(mi)
  BY <1>1 DEF Faithful, emitsCode, isCodeEmitting, mi
<1>3. mi.slot \in DOMAIN F.range /\ DumpIdx <= mi.slot
  BY <1>1, <1>2 DEF Faithful, IInv, Behind, mi
<1>4. DumpIdx \in DOMAIN F.range
  BY <1>1, <1>3 DEF IInv, Shape, AddressTypeOK
<1>5. PICK k \in DOMAIN F.code : k >= pos /\ emitsCode(F.code[k]) /\ F.code[k].slot = DumpIdx
  BY <1>1, <1>4 DEF Even
<1>6. k = pos
  <2>1. SUFFICES ASSUME pos < k PROVE FALSE
    BY <1>1, <1>5
  <2>2. mi.slot < DumpIdx
    BY <1>1, <1>2, <1>5, <2>1 DEF Faithful, mi
  <2> QED
    BY <1>1, <1>3, <2>2
<1>7. ~drifted
  BY <1>1, <1>2, <1>5, <1>6 DEF drifted, isUsableAnchor, Faithful, mi
<1> QED
  BY <1>2, <1>4, <1>5, <1>6, <1>7 DEF mi

LEMMA EvenStep == IInv /\ Even /\ [Next]_avars => Even'
<1> SUFFICES ASSUME IInv, Even, [Next]_avars PROVE Even'
  OBVIOUS
<1>0. isFunction(F) /\ pos \in Nat /\ DumpIdx \in Nat /\ \A k \in DOMAIN F.code : k \in Nat
  BY DEF IInv, Shape, AddressTypeOK, isFunction
<1>1. CASE AlignFunction
  <2>1. PICK g \in Functions : enter(g)
    BY <1>1 DEF AlignFunction
  <2>2. F' = g /\ pos' = 1 /\ DumpIdx' = 1
    BY <2>1 DEF enter
  <2>3. isFunction(g) /\ \A k \in DOMAIN g.code : k \in Nat /\ k >= 1
    BY FunctionsAssumption DEF isFunction
  <2>4. Exact'
    <3>1. \A k \in DOMAIN g.code : ~(k < 1)
      BY <2>3
    <3> QED
      BY <2>2, <3>1 DEF Exact
  <2> QED
    BY <2>2, <2>3, <2>4 DEF Even, OneToOne
<1>2. CASE Align
  <2>1. SUFFICES ASSUME OneToOne(F)
                 PROVE  /\ Exact'
                        /\ \A r \in DOMAIN F.range : r >= DumpIdx' =>
                             \E k \in DOMAIN F.code : k >= pos' /\ emitsCode(F.code[k]) /\ F.code[k].slot = r
    BY <1>2 DEF Even, Align, SkipDirective, RunOut, AssignNext, Resync, Mismatch, Finish
  <2>2. CASE SkipDirective
    <3>1. pos' = pos + 1 /\ UNCHANGED <<F, DumpIdx, InstructionAddress>> /\ ~emitsCode(F.code[pos])
      BY <2>2 DEF SkipDirective, isCodeEmitting, emitsCode, mi
    <3>2. \A k \in DOMAIN F.code : emitsCode(F.code[k]) => (k < pos' <=> k < pos) /\ (k >= pos' <=> k >= pos)
      BY <1>0, <3>1
    <3>3. Exact'
      BY <1>0, <2>1, <3>1, <3>2 DEF Even, Exact, resolved, addressOf, trueAddress
    <3> QED
      BY <2>1, <3>1, <3>2, <3>3 DEF Even
  <2>3. CASE RunOut
    <3>1. DumpIdx \in DOMAIN F.range /\ DumpIdx > Len(F.range)
      BY <2>1, <2>3, NextIsItsOwn DEF RunOut
    <3> QED
      BY <1>0, <3>1 DEF isFunction
  <2>4. CASE AssignNext
    <3>1. /\ atInstruction /\ isCodeEmitting(mi) /\ assign(DumpIdx)
          /\ pos' = pos + 1 /\ UNCHANGED F
      BY <2>4 DEF AssignNext, takesNext
    <3>2. pos \in DOMAIN F.code /\ DumpIdx = F.code[pos].slot
      BY <1>0, <2>1, <3>1, NextIsItsOwn DEF mi, atInstruction, IInv, Shape, AddressTypeOK, isFunction
    <3>3. DumpIdx' = DumpIdx + 1
          /\ InstructionAddress' = [x \in DOMAIN InstructionAddress \cup {F.code[pos].id} |->
                IF x = F.code[pos].id THEN F.range[DumpIdx].addr ELSE InstructionAddress[x]]
      BY <3>1 DEF assign, setInstructionAddress, mi
    <3>4. \A k \in DOMAIN F.code : k # pos => F.code[k].id # F.code[pos].id
      BY <1>0, <3>2 DEF isFunction
    <3>5. Exact'
      <4> SUFFICES ASSUME NEW k \in DOMAIN F.code, k < pos + 1, emitsCode(F.code[k])
                   PROVE  resolved(k)' /\ addressOf(k)' = trueAddress(k)'
        BY <3>1 DEF Exact
      <4>1. CASE k = pos
        BY <1>0, <3>1, <3>2, <3>3, <4>1 DEF resolved, addressOf, trueAddress
      <4>2. CASE k # pos
        <5>1. k < pos /\ resolved(k) /\ addressOf(k) = trueAddress(k)
          BY <1>0, <2>1, <4>2 DEF Even, Exact
        <5> QED
          BY <1>0, <3>1, <3>3, <3>4, <4>2, <5>1 DEF resolved, addressOf, trueAddress
      <4> QED
        BY <4>1, <4>2
    <3>6. ASSUME NEW r \in DOMAIN F.range, r >= DumpIdx + 1
          PROVE  \E k \in DOMAIN F.code : k >= pos + 1 /\ emitsCode(F.code[k]) /\ F.code[k].slot = r
      <4>1. r \in Nat /\ r >= DumpIdx /\ r # DumpIdx
        BY <1>0, <3>6 DEF isFunction
      <4>2. PICK k \in DOMAIN F.code : k >= pos /\ emitsCode(F.code[k]) /\ F.code[k].slot = r
        BY <2>1, <4>1 DEF Even
      <4> QED
        BY <1>0, <3>2, <4>1, <4>2
    <3> QED
      BY <3>1, <3>3, <3>5, <3>6
  <2>5. CASE Resync \/ Mismatch
    <3>1. atInstruction /\ isCodeEmitting(mi) /\ drifted
      BY <2>5 DEF Resync, Mismatch, takesNext
    <3> QED
      BY <2>1, <3>1, NextIsItsOwn
  <2>6. CASE Finish
    <3>1. UNCHANGED <<F, pos, DumpIdx, InstructionAddress>>
      BY <2>6 DEF Finish
    <3> QED
      BY <2>1, <3>1 DEF Even, Exact, resolved, addressOf, trueAddress
  <2> QED
    BY <1>2, <2>2, <2>3, <2>4, <2>5, <2>6 DEF Align
<1>3. CASE UNCHANGED avars
  BY <1>3 DEF avars, Even, Exact, resolved, addressOf, trueAddress
<1> QED
  BY <1>1, <1>2, <1>3 DEF Next

(***************************************************************************)
(* Without inline assembly and KILL, every instruction of a faithful function  *)
(* that was met has its true address, during the alignment and behind it.     *)
(***************************************************************************)
THEOREM OneToOneIsExact == Spec => [](OneToOne(F) => Exact)
<1>1. Init => Even
  BY DEF Init, noFunction, Even, Exact
<1>2. Even => (OneToOne(F) => Exact)
  BY DEF Even
<1> QED
  BY <1>1, <1>2, EvenStep, ResolverInvariant, PTL DEF Spec

-----------------------------------------------------------------------------
(***************************************************************************)
(* FlattenSeq.                                                             *)
(***************************************************************************)
joined(s, t) == s \o t
Flattens(f, seqs, n) ==
  \A i \in 1 .. n : f[i] = IF i = 1 THEN seqs[i] ELSE joined(f[i - 1], seqs[i])

LEMMA FlattensStep ==
  ASSUME NEW f, NEW seqs, NEW n \in Nat, Flattens(f, seqs, n), NEW k \in Nat, k < n
  PROVE  f[k + 1] = IF k = 0 THEN seqs[k + 1] ELSE joined(f[k], seqs[k + 1])
<1>1. k + 1 \in 1 .. n /\ (k + 1) - 1 = k /\ (k + 1 = 1 <=> k = 0)
  OBVIOUS
<1>2. f[k + 1] = IF k + 1 = 1 THEN seqs[k + 1] ELSE joined(f[(k + 1) - 1], seqs[k + 1])
  BY <1>1 DEF Flattens
<1> QED
  BY <1>1, <1>2

LEMMA FlattensExist ==
  ASSUME NEW I, NEW seqs \in Seq(Seq(I)), NEW n \in 0 .. Len(seqs)
  PROVE  \E f \in [1 .. n -> Seq(I)] : Flattens(f, seqs, n)
<1> DEFINE T == {k \in Nat : k <= Len(seqs) => \E f \in [1 .. k -> Seq(I)] : Flattens(f, seqs, k)}
<1>1. 0 \in T
  <2>1. [i \in 1 .. 0 |-> << >>] \in [1 .. 0 -> Seq(I)]
    BY EmptySeq
  <2>2. \A f : Flattens(f, seqs, 0)
    BY DEF Flattens
  <2> QED
    BY <2>1, <2>2
<1>2. ASSUME NEW k \in Nat, k \in T PROVE k + 1 \in T
  <2>1. SUFFICES ASSUME k + 1 <= Len(seqs)
                 PROVE  \E f \in [1 .. k + 1 -> Seq(I)] : Flattens(f, seqs, k + 1)
    OBVIOUS
  <2>2. PICK f \in [1 .. k -> Seq(I)] : Flattens(f, seqs, k)
    BY <1>2, <2>1
  <2> DEFINE last == IF k = 0 THEN seqs[1] ELSE joined(f[k], seqs[k + 1])
             g == [i \in 1 .. k + 1 |-> IF i = k + 1 THEN last ELSE f[i]]
  <2>3. seqs[k + 1] \in Seq(I)
    BY <2>1, ElementOfSeq
  <2>4. last \in Seq(I)
    BY <2>3, ConcatProperties DEF joined
  <2>5. g \in [1 .. k + 1 -> Seq(I)]
    BY <2>4
  <2>6. Flattens(g, seqs, k + 1)
    <3> SUFFICES ASSUME NEW i \in 1 .. k + 1
                 PROVE  g[i] = IF i = 1 THEN seqs[i] ELSE joined(g[i - 1], seqs[i])
      BY DEF Flattens
    <3>1. CASE i = k + 1
      <4>1. i # 1 => g[i - 1] = f[k]
        BY <3>1
      <4> QED
        BY <3>1, <4>1
    <3>2. CASE i # k + 1
      <4>1. i \in 1 .. k /\ g[i] = f[i] /\ (i # 1 => g[i - 1] = f[i - 1])
        BY <3>2
      <4> QED
        BY <2>2, <4>1 DEF Flattens
    <3> QED
      BY <3>1, <3>2
  <2> QED
    BY <2>5, <2>6
<1> HIDE DEF T
<1>3. Nat \subseteq T
  BY <1>1, <1>2, NumberInduction
<1>4. n \in Nat /\ n <= Len(seqs)
  BY LenProperties
<1> QED
  BY <1>3, <1>4 DEF T

LEMMA FlattenUnfold ==
  ASSUME NEW I, NEW seqs \in Seq(Seq(I)), Len(seqs) > 0
  PROVE  \E f \in [1 .. Len(seqs) -> Seq(I)] : Flattens(f, seqs, Len(seqs)) /\ FlattenSeq(seqs) = f[Len(seqs)]
<1> DEFINE P(f) == f = [i \in 1 .. Len(seqs) |-> IF i = 1 THEN seqs[i] ELSE joined(f[i - 1], seqs[i])]
           g == CHOOSE f : P(f)
<1>0. Len(seqs) \in Nat
  BY LenProperties
<1>1. PICK f \in [1 .. Len(seqs) -> Seq(I)] : Flattens(f, seqs, Len(seqs))
  <2>1. \A n \in 0 .. Len(seqs) : \E f \in [1 .. n -> Seq(I)] : Flattens(f, seqs, n)
    BY FlattensExist
  <2>2. Len(seqs) \in 0 .. Len(seqs)
    BY <1>0
  <2> QED
    BY <2>1, <2>2
<1>2. P(f)
  BY <1>1 DEF Flattens
<1>3. P(g)
  BY <1>2
<1>4. FlattenSeq(seqs) = g[Len(seqs)]
  BY DEF FlattenSeq, joined
<1> HIDE DEF g
<1>5. Flattens(g, seqs, Len(seqs))
  BY <1>3 DEF Flattens
<1>6. \A i \in 1 .. Len(seqs) : g[i] = f[i]
  <2> DEFINE T == {k \in Nat : k \in 1 .. Len(seqs) => g[k] = f[k]}
  <2>1. 0 \in T
    OBVIOUS
  <2>2. ASSUME NEW k \in Nat, k \in T PROVE k + 1 \in T
    <3>1. SUFFICES ASSUME k + 1 \in 1 .. Len(seqs) PROVE g[k + 1] = f[k + 1]
      OBVIOUS
    <3>2. k < Len(seqs) /\ (k # 0 => g[k] = f[k])
      BY <1>0, <2>2, <3>1
    <3>3. /\ g[k + 1] = IF k = 0 THEN seqs[k + 1] ELSE joined(g[k], seqs[k + 1])
          /\ f[k + 1] = IF k = 0 THEN seqs[k + 1] ELSE joined(f[k], seqs[k + 1])
      BY <1>0, <1>1, <1>5, <3>2, FlattensStep
    <3> QED
      BY <3>2, <3>3
  <2> HIDE DEF T
  <2>3. Nat \subseteq T
    BY <2>1, <2>2, NumberInduction
  <2> QED
    BY <1>0, <2>3 DEF T
<1>7. Len(seqs) \in 1 .. Len(seqs)
  BY <1>0
<1> QED
  BY <1>1, <1>4, <1>6, <1>7

LEMMA FlattenEmpty == FlattenSeq(<< >>) = << >>
BY DEF FlattenSeq

LEMMA FlattenType ==
  ASSUME NEW I, NEW seqs \in Seq(Seq(I))
  PROVE  FlattenSeq(seqs) \in Seq(I)
<1>1. CASE Len(seqs) = 0
  BY <1>1, FlattenEmpty, EmptySeq
<1>2. CASE Len(seqs) # 0
  <2>1. Len(seqs) \in Nat /\ Len(seqs) > 0
    BY <1>2, LenProperties
  <2>2. PICK f \in [1 .. Len(seqs) -> Seq(I)] : FlattenSeq(seqs) = f[Len(seqs)]
    BY <2>1, FlattenUnfold
  <2>3. Len(seqs) \in 1 .. Len(seqs)
    BY <2>1
  <2> QED
    BY <2>2, <2>3
<1> QED
  BY <1>1, <1>2

LEMMA FlattenAppend ==
  ASSUME NEW I, NEW s \in Seq(Seq(I)), NEW t \in Seq(I)
  PROVE  FlattenSeq(Append(s, t)) = FlattenSeq(s) \o t
<1> DEFINE u == Append(s, t)
           n == Len(s)
<1>1. /\ u \in Seq(Seq(I)) /\ Len(u) = n + 1 /\ u[n + 1] = t /\ n \in Nat
      /\ \A i \in 1 .. n : u[i] = s[i]
  BY AppendProperties, LenProperties
<1> HIDE DEF u
<1>2. PICK g \in [1 .. n + 1 -> Seq(I)] : Flattens(g, u, n + 1) /\ FlattenSeq(u) = g[n + 1]
  BY <1>1, FlattenUnfold
<1>3. CASE n = 0
  <2>1. s = << >>
    BY <1>3, EmptySeq
  <2>2. g[1] = t
    BY <1>1, <1>2, <1>3 DEF Flattens
  <2> QED
    BY <1>2, <1>3, <2>1, <2>2, FlattenEmpty, ConcatEmptySeq DEF u
<1>4. CASE n > 0
  <2>1. PICK f \in [1 .. n -> Seq(I)] : Flattens(f, s, n) /\ FlattenSeq(s) = f[n]
    BY <1>4, FlattenUnfold
  <2> DEFINE T == {k \in Nat : k \in 1 .. n => g[k] = f[k]}
  <2>2. 0 \in T
    OBVIOUS
  <2>3. ASSUME NEW k \in Nat, k \in T PROVE k + 1 \in T
    <3>1. SUFFICES ASSUME k + 1 \in 1 .. n PROVE g[k + 1] = f[k + 1]
      OBVIOUS
    <3>2. k < n /\ k < n + 1 /\ u[k + 1] = s[k + 1] /\ n + 1 \in Nat
      BY <1>1, <3>1
    <3>3. g[k + 1] = IF k = 0 THEN s[k + 1] ELSE joined(g[k], s[k + 1])
      <4> HIDE DEF n
      <4>1. g[k + 1] = IF k = 0 THEN u[k + 1] ELSE joined(g[k], u[k + 1])
        BY <1>1, <1>2, <3>2, FlattensStep
      <4> QED
        BY <3>2, <4>1
    <3>4. f[k + 1] = IF k = 0 THEN s[k + 1] ELSE joined(f[k], s[k + 1])
      <4> HIDE DEF n
      <4> QED
        BY <1>1, <2>1, <3>2, FlattensStep
    <3>5. k # 0 => g[k] = f[k]
      BY <1>1, <2>3, <3>1
    <3> QED
      BY <3>3, <3>4, <3>5
  <2> HIDE DEF T
  <2>4. Nat \subseteq T
    BY <2>2, <2>3, NumberInduction
  <2>5. g[n] = f[n]
    <3>1. n \in 1 .. n /\ n \in T
      BY <1>1, <1>4, <2>4
    <3> QED
      BY <3>1 DEF T
  <2>6. g[n + 1] = joined(g[n], t)
    <3> HIDE DEF n
    <3>1. n + 1 \in Nat /\ n < n + 1 /\ n # 0
      BY <1>1, <1>4
    <3>2. g[n + 1] = IF n = 0 THEN u[n + 1] ELSE joined(g[n], u[n + 1])
      BY <1>1, <1>2, <3>1, FlattensStep
    <3> QED
      BY <1>1, <3>1, <3>2
  <2> QED
    BY <1>2, <2>1, <2>5, <2>6 DEF u, joined
<1> QED
  BY <1>1, <1>3, <1>4

-----------------------------------------------------------------------------
(***************************************************************************)
(* CallSplitter: c[k] is what the first k instructions of a block are cut     *)
(* into.                                                                   *)
(***************************************************************************)
cutAfterCall(cut, i) ==
  IF Last(cut) # << >> /\ Last(Last(cut)).call THEN Append(cut, <<i>>)
  ELSE Front(cut) \o <<Append(Last(cut), i)>>

CutFold(g, body) ==
  g = [s \in SUBSET DOMAIN body |->
         IF s = {} THEN << << >> >> ELSE cutAfterCall(g[s \ {Max(s)}], body[Max(s)])]

LEMMA SplitIsAFold ==
  ASSUME NEW body
  PROVE  splitAfterCalls(body) = (CHOOSE g : CutFold(g, body))[DOMAIN body]
BY DEF splitAfterCalls, FoldLeft, MapThenFoldSet, CutFold, cutAfterCall

Cuts(I) == Seq(Seq(I)) \ {<< >>}

LEMMA CutType ==
  ASSUME NEW I, NEW cut \in Cuts(I), NEW i \in I
  PROVE  /\ Front(cut) \in Seq(Seq(I)) /\ Last(cut) \in Seq(I) /\ cut = Append(Front(cut), Last(cut))
         /\ Front(cut) \o <<Append(Last(cut), i)>> = Append(Front(cut), Append(Last(cut), i))
         /\ cutAfterCall(cut, i) \in Cuts(I)
<1>1. cut \in Seq(Seq(I)) /\ cut # << >>
  BY DEF Cuts
<1>2. PICK s \in Seq(Seq(I)), e \in Seq(I) : cut = Append(s, e)
  BY <1>1, SequenceEmptyOrAppend
<1>3. Len(cut) = Len(s) + 1 /\ cut[Len(s) + 1] = e /\ Len(s) \in Nat /\ \A j \in 1 .. Len(s) : cut[j] = s[j]
  BY <1>2, AppendProperties, LenProperties
<1>4. Last(cut) = e
  BY <1>3 DEF Last
<1>5. Front(cut) = s
  <2>1. Front(cut) = SubSeq(cut, 1, Len(s))
    BY <1>3 DEF Front
  <2>2. \A j \in 1 .. Len(s) : cut[j] \in Seq(I)
    BY <1>3, ElementOfSeq
  <2>3. /\ SubSeq(cut, 1, Len(s)) \in Seq(Seq(I))
        /\ Len(SubSeq(cut, 1, Len(s))) = Len(s)
        /\ \A j \in 1 .. Len(s) : SubSeq(cut, 1, Len(s))[j] = cut[j]
    BY <1>3, <2>2, SubSeqProperties
  <2> QED
    BY <1>3, <2>1, <2>3, SeqEqual
<1>6. Append(e, i) \in Seq(I) /\ <<i>> \in Seq(I)
  BY AppendProperties
<1>7. ASSUME NEW t \in Seq(Seq(I)), NEW f \in Seq(I)
      PROVE  t \o <<f>> = Append(t, f) /\ Append(t, f) \in Cuts(I)
  <2> DEFINE J == Seq(I)
  <2> HIDE DEF J
  <2>0. \A a \in Seq(J), b \in J : Append(a, b) \in Seq(J) /\ Append(a, b) # << >>
    BY AppendProperties
  <2>1. Append(t, f) \in Seq(Seq(I)) /\ Append(t, f) # << >>
    BY <2>0 DEF J
  <2> QED
    BY <2>1, AppendIsConcat DEF Cuts
<1>8. s \o <<Append(e, i)>> = Append(s, Append(e, i)) /\ Append(s, Append(e, i)) \in Cuts(I)
  BY <1>6, <1>7
<1>9. Append(cut, <<i>>) \in Cuts(I)
  BY <1>1, <1>6, <1>7
<1> QED
  BY <1>2, <1>4, <1>5, <1>8, <1>9 DEF cutAfterCall

LEMMA CutFoldExists ==
  ASSUME NEW I, NEW body \in Seq(I)
  PROVE  \E g : CutFold(g, body)
<1> DEFINE n == Len(body)
           step == [q \in (1 .. n) \X Cuts(I) |-> cutAfterCall(q[2], body[q[1]])]
           base == << << >> >>
<1>1. n \in Nat /\ DOMAIN body = 1 .. n /\ IsFiniteSet(1 .. n) /\ \A k \in 1 .. n : body[k] \in I
  BY LenProperties, ElementOfSeq, FS_Interval
<1>2. step \in [(1 .. n) \X Cuts(I) -> Cuts(I)]
  BY <1>1, CutType
<1>3. base \in Cuts(I)
  <2>1. << >> \in Seq(I)
    BY EmptySeq
  <2> QED
    BY <2>1 DEF Cuts
<1> HIDE DEF n, base
<1>4. PICK g : Folds(g, maxOf(n), step, base, 1 .. n)
  BY <1>1, MaxPicks, FoldsExist
<1>5. \A s \in SUBSET (1 .. n) : g[s] \in Cuts(I)
  <2> HIDE DEF step
  <2> QED
    BY <1>1, <1>2, <1>3, <1>4, MaxPicks, FoldsStay
<1>6. ASSUME NEW s \in SUBSET (1 .. n)
      PROVE  g[s] = IF s = {} THEN base ELSE cutAfterCall(g[s \ {Max(s)}], body[Max(s)])
  <2>1. g[s] = IF s = {} THEN base ELSE step[<<maxOf(n)[s], g[s \ {maxOf(n)[s]}]>>]
    <3> DEFINE pick == maxOf(n)
    <3> HIDE DEF step, pick
    <3>1. Folds(g, pick, step, base, 1 .. n)
      BY <1>4 DEF pick
    <3>2. g[s] = IF s = {} THEN base ELSE step[<<pick[s], g[s \ {pick[s]}]>>]
      BY <3>1 DEF Folds
    <3> QED
      BY <3>2 DEF pick
  <2>2. maxOf(n)[s] = Max(s) /\ (s # {} => Max(s) \in 1 .. n) /\ s \ {Max(s)} \in SUBSET (1 .. n)
    BY <1>1, MaxIsGreatest DEF maxOf
  <2>3. s # {} => <<Max(s), g[s \ {Max(s)}]>> \in (1 .. n) \X Cuts(I)
    BY <1>5, <2>2
  <2> QED
    BY <2>1, <2>2, <2>3
<1>7. g = [s \in SUBSET (1 .. n) |-> g[s]]
  BY <1>4 DEF Folds
<1>8. CutFold(g, body)
  BY <1>1, <1>6, <1>7 DEF CutFold, base
<1> QED
  BY <1>8

LEMMA SplitUnfold ==
  ASSUME NEW I, NEW body \in Seq(I)
  PROVE  \E c : /\ c[0] = << << >> >>
                /\ \A k \in 1 .. Len(body) : c[k] = cutAfterCall(c[k - 1], body[k])
                /\ splitAfterCalls(body) = c[Len(body)]
<1> DEFINE g == CHOOSE h : CutFold(h, body)
           c == [k \in Nat |-> g[1 .. k]]
<1>1. CutFold(g, body)
  BY CutFoldExists
<1>2. splitAfterCalls(body) = g[DOMAIN body]
  BY SplitIsAFold
<1>3. Len(body) \in Nat /\ DOMAIN body = 1 .. Len(body)
  BY LenProperties
<1> HIDE DEF g
<1>4. \A s \in SUBSET (1 .. Len(body)) :
        g[s] = IF s = {} THEN << << >> >> ELSE cutAfterCall(g[s \ {Max(s)}], body[Max(s)])
  BY <1>1, <1>3 DEF CutFold
<1>5. c[0] = << << >> >>
  <2>1. 1 .. 0 = {}
    OBVIOUS
  <2> QED
    BY <1>4, <2>1
<1>6. ASSUME NEW k \in 1 .. Len(body)
      PROVE  c[k] = cutAfterCall(c[k - 1], body[k])
  <2>1. k - 1 \in Nat /\ (k - 1) + 1 = k /\ k \in 1 .. k /\ 1 .. k \in SUBSET (1 .. Len(body)) /\ k \in Nat
    BY <1>3
  <2>2. Max(1 .. k) = k /\ (1 .. k) \ {k} = 1 .. k - 1
    BY <2>1, MaxOfInterval
  <2>3. g[1 .. k] = cutAfterCall(g[(1 .. k) \ {Max(1 .. k)}], body[Max(1 .. k)])
    BY <1>4, <2>1
  <2> QED
    BY <2>1, <2>2, <2>3
<1>7. splitAfterCalls(body) = c[Len(body)]
  BY <1>2, <1>3
<1> HIDE DEF c
<1> QED
  BY <1>5, <1>6, <1>7

(***************************************************************************)
(* A cut loses nothing, adds nothing and changes no order.                  *)
(***************************************************************************)
LEMMA CutKeepsCode ==
  ASSUME NEW I, NEW cut \in Cuts(I), NEW i \in I
  PROVE  FlattenSeq(cutAfterCall(cut, i)) = Append(FlattenSeq(cut), i)
<1> DEFINE s == Front(cut)
           e == Last(cut)
<1>1. /\ s \in Seq(Seq(I)) /\ e \in Seq(I) /\ cut = Append(s, e) /\ cut \in Seq(Seq(I))
      /\ s \o <<Append(e, i)>> = Append(s, Append(e, i))
  BY CutType DEF Cuts
<1> HIDE DEF s, e
<1>2. <<i>> \in Seq(I) /\ Append(e, i) \in Seq(I) /\ Append(e, i) = e \o <<i>>
  <2>1. <<i>> \in Seq(I)
    OBVIOUS
  <2> QED
    BY <1>1, <2>1, AppendProperties, AppendIsConcat
<1>3. FlattenSeq(s) \in Seq(I) /\ FlattenSeq(cut) \in Seq(I)
  BY <1>1, FlattenType
<1>4. FlattenSeq(cut) \o <<i>> = Append(FlattenSeq(cut), i)
  BY <1>3, AppendIsConcat
<1>5. FlattenSeq(Append(cut, <<i>>)) = FlattenSeq(cut) \o <<i>>
  BY <1>1, <1>2, FlattenAppend
<1>6. FlattenSeq(s \o <<Append(e, i)>>) = FlattenSeq(cut) \o <<i>>
  <2>1. FlattenSeq(Append(s, Append(e, i))) = FlattenSeq(s) \o (e \o <<i>>)
    BY <1>1, <1>2, FlattenAppend
  <2>2. FlattenSeq(cut) = FlattenSeq(s) \o e
    BY <1>1, FlattenAppend
  <2>3. (FlattenSeq(s) \o e) \o <<i>> = FlattenSeq(s) \o (e \o <<i>>)
    BY <1>1, <1>2, <1>3, ConcatAssociative
  <2> QED
    BY <1>1, <2>1, <2>2, <2>3
<1>7. cutAfterCall(cut, i) \in {Append(cut, <<i>>), s \o <<Append(e, i)>>}
  BY DEF cutAfterCall, s, e
<1> QED
  BY <1>4, <1>5, <1>6, <1>7

\* Every block of a cut has its calls at the end.
CallsLast(block) == \A k \in DOMAIN block : block[k].call => k = Len(block)

LEMMA CutKeepsCallsLast ==
  ASSUME NEW I, NEW cut \in Cuts(I), NEW i \in I, \A b \in DOMAIN cut : CallsLast(cut[b])
  PROVE  \A b \in DOMAIN cutAfterCall(cut, i) : CallsLast(cutAfterCall(cut, i)[b])
<1> DEFINE s == Front(cut)
           e == Last(cut)
<1>1. /\ s \in Seq(Seq(I)) /\ e \in Seq(I) /\ cut = Append(s, e) /\ cut \in Seq(Seq(I))
      /\ s \o <<Append(e, i)>> = Append(s, Append(e, i))
  BY CutType DEF Cuts
<1> HIDE DEF s, e
<1>2. ASSUME NEW u \in Seq(Seq(I)), NEW f \in Seq(I), \A b \in DOMAIN u : CallsLast(u[b]), CallsLast(f)
      PROVE  \A b \in DOMAIN Append(u, f) : CallsLast(Append(u, f)[b])
  <2>1. /\ Append(u, f) \in Seq(Seq(I)) /\ Len(Append(u, f)) = Len(u) + 1 /\ Append(u, f)[Len(u) + 1] = f
        /\ \A b \in 1 .. Len(u) : Append(u, f)[b] = u[b]
    BY AppendProperties
  <2>2. DOMAIN Append(u, f) = 1 .. Len(u) + 1 /\ DOMAIN u = 1 .. Len(u) /\ Len(u) \in Nat
    BY <2>1, LenProperties
  <2> QED
    BY <1>2, <2>1, <2>2
<1>3. (\A b \in DOMAIN s : CallsLast(s[b])) /\ CallsLast(e)
  <2>1. /\ Len(cut) = Len(s) + 1 /\ cut[Len(s) + 1] = e /\ \A b \in 1 .. Len(s) : cut[b] = s[b]
    BY <1>1, AppendProperties
  <2>2. DOMAIN cut = 1 .. Len(s) + 1 /\ DOMAIN s = 1 .. Len(s) /\ Len(s) \in Nat
    BY <1>1, <2>1, LenProperties
  <2> QED
    BY <2>1, <2>2
<1>4. CASE e # << >> /\ Last(e).call
  <2>1. <<i>> \in Seq(I) /\ CallsLast(<<i>>)
    BY DEF CallsLast
  <2>2. cutAfterCall(cut, i) = Append(cut, <<i>>)
    BY <1>4 DEF cutAfterCall, e
  <2> QED
    BY <1>1, <1>2, <2>1, <2>2
<1>5. CASE ~(e # << >> /\ Last(e).call)
  <2>1. cutAfterCall(cut, i) = Append(s, Append(e, i))
    BY <1>1, <1>5 DEF cutAfterCall, s, e
  <2>2. /\ Append(e, i) \in Seq(I) /\ Len(Append(e, i)) = Len(e) + 1
        /\ \A k \in 1 .. Len(e) : Append(e, i)[k] = e[k]
    BY <1>1, AppendProperties
  <2>3. DOMAIN Append(e, i) = 1 .. Len(e) + 1 /\ DOMAIN e = 1 .. Len(e) /\ Len(e) \in Nat
    BY <1>1, <2>2, LenProperties
  <2>4. \A k \in 1 .. Len(e) : ~e[k].call
    BY <1>3, <1>5, <2>3 DEF CallsLast, Last
  <2>5. CallsLast(Append(e, i))
    BY <2>2, <2>3, <2>4 DEF CallsLast
  <2> QED
    BY <1>1, <1>2, <1>3, <2>1, <2>2, <2>5
<1> QED
  BY <1>4, <1>5

(***************************************************************************)
(* What CallSplitter makes of a block.                                      *)
(***************************************************************************)
LEMMA SplitBlock ==
  ASSUME NEW I, NEW body \in Seq(I)
  PROVE  /\ splitAfterCalls(body) \in Cuts(I)
         /\ FlattenSeq(splitAfterCalls(body)) = body
         /\ \A b \in DOMAIN splitAfterCalls(body) : CallsLast(splitAfterCalls(body)[b])
<1>1. PICK c : /\ c[0] = << << >> >>
               /\ \A k \in 1 .. Len(body) : c[k] = cutAfterCall(c[k - 1], body[k])
               /\ splitAfterCalls(body) = c[Len(body)]
  BY SplitUnfold
<1>0. Len(body) \in Nat /\ \A k \in 1 .. Len(body) : body[k] \in I
  BY LenProperties, ElementOfSeq
<1> DEFINE good(k) == /\ c[k] \in Cuts(I)
                      /\ FlattenSeq(c[k]) = SubSeq(body, 1, k)
                      /\ \A b \in DOMAIN c[k] : CallsLast(c[k][b])
           T == {k \in Nat : k <= Len(body) => good(k)}
<1>2. 0 \in T
  <2>1. << >> \in Seq(I) /\ << << >> >> \in Cuts(I) /\ << >> \in Seq(Seq(I))
    BY EmptySeq DEF Cuts
  <2>2. << << >> >> = Append(<< >>, << >>)
    OBVIOUS
  <2>3. FlattenSeq(<< << >> >>) = << >>
    <3>1. FlattenSeq(Append(<< >>, << >>)) = FlattenSeq(<< >>) \o << >>
      BY <2>1, FlattenAppend
    <3>2. << >> \o << >> = << >>
      BY <2>1, ConcatEmptySeq
    <3> QED
      BY <2>2, <3>1, <3>2, FlattenEmpty
  <2>4. SubSeq(body, 1, 0) = << >>
    BY SubSeqEmpty
  <2>5. \A b \in DOMAIN << << >> >> : CallsLast((<< << >> >>)[b])
    BY DEF CallsLast
  <2> QED
    BY <1>1, <2>1, <2>3, <2>4, <2>5
<1>3. ASSUME NEW k \in Nat, k \in T PROVE k + 1 \in T
  <2>1. SUFFICES ASSUME k + 1 <= Len(body) PROVE good(k + 1)
    OBVIOUS
  <2>2. good(k) /\ k + 1 \in 1 .. Len(body) /\ (k + 1) - 1 = k /\ 1 \in 1 .. Len(body) /\ k + 1 \in 1 .. Len(body)
    BY <1>0, <1>3, <2>1
  <2>3. c[k + 1] = cutAfterCall(c[k], body[k + 1]) /\ body[k + 1] \in I
    BY <1>0, <1>1, <2>2
  <2>4. c[k + 1] \in Cuts(I)
    BY <2>2, <2>3, CutType
  <2>5. \A b \in DOMAIN c[k + 1] : CallsLast(c[k + 1][b])
    BY <2>2, <2>3, CutKeepsCallsLast
  <2>6. FlattenSeq(c[k + 1]) = Append(SubSeq(body, 1, k), body[k + 1])
    BY <2>2, <2>3, CutKeepsCode
  <2>7. SubSeq(body, 1, k) \in Seq(I)
    <3>1. \A i \in 1 .. k : body[i] \in I
      BY <1>0, <2>1
    <3> QED
      BY <3>1, SubSeqProperties
  <2>8. SubSeq(body, 1, k + 1) = SubSeq(body, 1, k) \o <<body[k + 1]>>
    BY <2>2, SubSeqRecursiveSecond
  <2>9. FlattenSeq(c[k + 1]) = SubSeq(body, 1, k + 1)
    BY <2>3, <2>6, <2>7, <2>8, AppendIsConcat
  <2> QED
    BY <2>4, <2>5, <2>9
<1> HIDE DEF T
<1>4. Nat \subseteq T
  BY <1>2, <1>3, NumberInduction
<1>5. good(Len(body))
  BY <1>0, <1>4 DEF T
<1>6. SubSeq(body, 1, Len(body)) = body
  BY SubSeqFull
<1> QED
  BY <1>1, <1>5, <1>6

-----------------------------------------------------------------------------
(***************************************************************************)
(* CallSplitter on a function.                                             *)
(***************************************************************************)
LEMMA FlattenConcat ==
  ASSUME NEW I, NEW s \in Seq(Seq(I)), NEW t \in Seq(Seq(I))
  PROVE  FlattenSeq(s \o t) = FlattenSeq(s) \o FlattenSeq(t)
<1> DEFINE pre(k) == SubSeq(t, 1, k)
           T == {k \in Nat : k <= Len(t) => FlattenSeq(s \o pre(k)) = FlattenSeq(s) \o FlattenSeq(pre(k))}
<1>0. Len(t) \in Nat /\ FlattenSeq(s) \in Seq(I) /\ \A k \in 1 .. Len(t) : t[k] \in Seq(I)
  BY LenProperties, ElementOfSeq, FlattenType
<1>1. 0 \in T
  <2>1. pre(0) = << >>
    BY SubSeqEmpty
  <2>2. s \o << >> = s /\ FlattenSeq(s) \o << >> = FlattenSeq(s)
    BY <1>0, ConcatEmptySeq
  <2> QED
    BY <2>1, <2>2, FlattenEmpty
<1>2. ASSUME NEW k \in Nat, k \in T PROVE k + 1 \in T
  <2>1. SUFFICES ASSUME k + 1 <= Len(t)
                 PROVE  FlattenSeq(s \o pre(k + 1)) = FlattenSeq(s) \o FlattenSeq(pre(k + 1))
    OBVIOUS
  <2> DEFINE e == t[k + 1]
  <2>2. FlattenSeq(s \o pre(k)) = FlattenSeq(s) \o FlattenSeq(pre(k)) /\ e \in Seq(I) /\ k + 1 \in 1 .. Len(t)
        /\ 1 \in 1 .. Len(t) /\ k + 1 \in 1 .. Len(t) /\ (k + 1) - 1 = k
    BY <1>0, <1>2, <2>1
  <2>3. pre(k) \in Seq(Seq(I))
    <3>1. \A i \in 1 .. k : t[i] \in Seq(I)
      BY <1>0, <2>1
    <3> QED
      BY <3>1, SubSeqProperties
  <2>4. pre(k + 1) = pre(k) \o <<e>>
    BY <2>2, SubSeqRecursiveSecond
  <2> HIDE DEF pre, e
  <2>5. <<e>> \in Seq(Seq(I)) /\ s \o pre(k) \in Seq(Seq(I)) /\ FlattenSeq(pre(k)) \in Seq(I)
    BY <2>2, <2>3, ConcatProperties, FlattenType
  <2>6. pre(k) \o <<e>> = Append(pre(k), e) /\ (s \o pre(k)) \o <<e>> = Append(s \o pre(k), e)
    BY <2>2, <2>3, <2>5, AppendIsConcat
  <2>7. s \o pre(k + 1) = Append(s \o pre(k), e)
    <3> DEFINE J == Seq(I)
               p == pre(k)
               u == <<e>>
    <3>1. s \in Seq(J) /\ p \in Seq(J) /\ u \in Seq(J)
      BY <1>0, <2>3, <2>5
    <3> HIDE DEF J, p, u
    <3>2. (s \o p) \o u = s \o (p \o u)
      BY <3>1, ConcatAssociative
    <3> QED
      BY <2>4, <2>6, <3>2 DEF p, u
  <2>8. FlattenSeq(s \o pre(k + 1)) = (FlattenSeq(s) \o FlattenSeq(pre(k))) \o e
    BY <2>2, <2>5, <2>7, FlattenAppend
  <2>9. FlattenSeq(pre(k + 1)) = FlattenSeq(pre(k)) \o e
    <3>1. FlattenSeq(Append(pre(k), e)) = FlattenSeq(pre(k)) \o e
      BY <2>2, <2>3, FlattenAppend
    <3> QED
      BY <2>4, <2>6, <3>1
  <2>10. (FlattenSeq(s) \o FlattenSeq(pre(k))) \o e = FlattenSeq(s) \o (FlattenSeq(pre(k)) \o e)
    <3> DEFINE a == FlattenSeq(s)
               b == FlattenSeq(pre(k))
    <3>0. \A x, y, z \in Seq(I) : (x \o y) \o z = x \o (y \o z)
      BY ConcatAssociative
    <3>1. a \in Seq(I) /\ b \in Seq(I) /\ e \in Seq(I)
      BY <1>0, <2>2, <2>5
    <3> HIDE DEF a, b
    <3>2. (a \o b) \o e = a \o (b \o e)
      BY <3>0, <3>1
    <3> QED
      BY <3>2 DEF a, b
  <2> QED
    BY <2>8, <2>9, <2>10
<1> HIDE DEF T
<1>3. Nat \subseteq T
  BY <1>1, <1>2, NumberInduction
<1>4. FlattenSeq(s \o pre(Len(t))) = FlattenSeq(s) \o FlattenSeq(pre(Len(t)))
  BY <1>0, <1>3 DEF T
<1> QED
  BY <1>4, SubSeqFull

split(bs) == [b \in DOMAIN bs |-> splitAfterCalls(bs[b])]

LEMMA SplitTypes ==
  ASSUME NEW I, NEW bs \in Seq(Seq(I))
  PROVE  /\ split(bs) \in Seq(Seq(Seq(I)))
         /\ Len(split(bs)) = Len(bs)
         /\ \A b \in 1 .. Len(bs) : split(bs)[b] = splitAfterCalls(bs[b])
<1>1. DOMAIN bs = 1 .. Len(bs) /\ Len(bs) \in Nat /\ \A b \in 1 .. Len(bs) : bs[b] \in Seq(I)
  BY LenProperties, ElementOfSeq
<1>2. \A b \in 1 .. Len(bs) : splitAfterCalls(bs[b]) \in Seq(Seq(I))
  BY <1>1, SplitBlock DEF Cuts
<1> QED
  BY <1>1, <1>2 DEF split

(***************************************************************************)
(* The blocks CallSplitter leaves have the code of the blocks it met, in its  *)
(* order.                                                                  *)
(***************************************************************************)
LEMMA SplitKeepsCode ==
  ASSUME NEW I, NEW bs \in Seq(Seq(I))
  PROVE  /\ FlattenSeq(split(bs)) \in Seq(Seq(I))
         /\ FlattenSeq(FlattenSeq(split(bs))) = FlattenSeq(bs)
         /\ \A b \in DOMAIN FlattenSeq(split(bs)) : CallsLast(FlattenSeq(split(bs))[b])
<1> DEFINE cut == split(bs)
           n == Len(bs)
           good(k) == /\ FlattenSeq(FlattenSeq(SubSeq(cut, 1, k))) = FlattenSeq(SubSeq(bs, 1, k))
                      /\ \A b \in DOMAIN FlattenSeq(SubSeq(cut, 1, k)) :
                           CallsLast(FlattenSeq(SubSeq(cut, 1, k))[b])
           T == {k \in Nat : k <= n => good(k)}
<1>0. /\ cut \in Seq(Seq(Seq(I))) /\ Len(cut) = n /\ n \in Nat
      /\ \A k \in 1 .. n : cut[k] = splitAfterCalls(bs[k]) /\ bs[k] \in Seq(I) /\ cut[k] \in Seq(Seq(I))
  BY SplitTypes, LenProperties, ElementOfSeq
<1> HIDE DEF cut, n
<1>1. 0 \in T
  <2>1. SubSeq(cut, 1, 0) = << >> /\ SubSeq(bs, 1, 0) = << >>
    BY SubSeqEmpty
  <2>2. DOMAIN << >> = {}
    OBVIOUS
  <2>3. good(0)
    BY <2>1, <2>2, FlattenEmpty
  <2> HIDE DEF good
  <2> QED
    BY <2>3
<1>2. ASSUME NEW k \in Nat, k \in T PROVE k + 1 \in T
  <2>1. SUFFICES ASSUME k + 1 <= n PROVE good(k + 1)
    OBVIOUS
  <2> DEFINE u == SubSeq(cut, 1, k)
             v == SubSeq(bs, 1, k)
             x == cut[k + 1]
             y == bs[k + 1]
  <2>2. good(k) /\ k + 1 \in 1 .. n /\ 1 \in 1 .. n /\ (k + 1) - 1 = k
    BY <1>0, <1>2, <2>1
  <2>3. u \in Seq(Seq(Seq(I))) /\ v \in Seq(Seq(I))
    <3>1. \A i \in 1 .. k : cut[i] \in Seq(Seq(I)) /\ bs[i] \in Seq(I)
      BY <1>0, <2>1
    <3> QED
      BY <3>1, SubSeqProperties
  <2>4. x \in Seq(Seq(I)) /\ FlattenSeq(x) = y /\ (\A b \in DOMAIN x : CallsLast(x[b])) /\ y \in Seq(I)
    BY <1>0, <2>2, SplitBlock DEF Cuts
  <2>5. SubSeq(cut, 1, k + 1) = Append(u, x) /\ SubSeq(bs, 1, k + 1) = Append(v, y)
    <3>1. SubSeq(cut, 1, k + 1) = u \o <<x>>
      BY <1>0, <2>2, SubSeqRecursiveSecond
    <3>2. SubSeq(bs, 1, k + 1) = v \o <<y>>
      BY <1>0, <2>2, SubSeqRecursiveSecond DEF n
    <3> HIDE DEF u, v, x, y
    <3>3. u \o <<x>> = Append(u, x) /\ v \o <<y>> = Append(v, y)
      BY <2>3, <2>4, AppendIsConcat
    <3> QED
      BY <3>1, <3>2, <3>3
  <2> DEFINE a == FlattenSeq(u)
  <2> HIDE DEF u, v, x, y
  <2>6. FlattenSeq(Append(u, x)) = a \o x /\ FlattenSeq(Append(v, y)) = FlattenSeq(v) \o y
    BY <2>3, <2>4, FlattenAppend
  <2>7. a \in Seq(Seq(I)) /\ FlattenSeq(a) = FlattenSeq(v) /\ \A b \in DOMAIN a : CallsLast(a[b])
    BY <2>2, <2>3, FlattenType DEF u, v
  <2> HIDE DEF a
  <2>8. FlattenSeq(a \o x) = FlattenSeq(v) \o y
    BY <2>4, <2>7, FlattenConcat
  <2>9. \A b \in DOMAIN (a \o x) : CallsLast((a \o x)[b])
    <3>1. /\ a \o x \in Seq(Seq(I)) /\ Len(a \o x) = Len(a) + Len(x)
          /\ \A i \in 1 .. Len(a) + Len(x) : (a \o x)[i] = IF i <= Len(a) THEN a[i] ELSE x[i - Len(a)]
      BY <2>4, <2>7, ConcatProperties
    <3>2. /\ DOMAIN (a \o x) = 1 .. Len(a) + Len(x) /\ DOMAIN a = 1 .. Len(a) /\ DOMAIN x = 1 .. Len(x)
          /\ Len(a) \in Nat /\ Len(x) \in Nat
      BY <2>4, <2>7, <3>1, LenProperties
    <3> SUFFICES ASSUME NEW b \in 1 .. Len(a) + Len(x) PROVE CallsLast((a \o x)[b])
      BY <3>2
    <3>3. CASE b <= Len(a)
      <4>1. b \in 1 .. Len(a)
        BY <3>2, <3>3
      <4> QED
        BY <2>7, <3>1, <3>2, <3>3, <4>1
    <3>4. CASE ~(b <= Len(a))
      <4>1. b - Len(a) \in 1 .. Len(x)
        BY <3>2, <3>4
      <4> QED
        BY <2>4, <3>1, <3>2, <3>4, <4>1
    <3> QED
      BY <3>3, <3>4
  <2> QED
    BY <2>5, <2>6, <2>8, <2>9
<1> HIDE DEF T
<1>3. Nat \subseteq T
  BY <1>1, <1>2, NumberInduction
<1>4. good(n)
  BY <1>0, <1>3 DEF T
<1>5. SubSeq(cut, 1, n) = cut /\ SubSeq(bs, 1, n) = bs
  BY <1>0, SubSeqFull DEF n
<1>6. FlattenSeq(cut) \in Seq(Seq(I))
  BY <1>0, FlattenType
<1> QED
  BY <1>4, <1>5, <1>6 DEF cut

-----------------------------------------------------------------------------
(***************************************************************************)
(* The passes go through the functions in order; behind CallSplitter a        *)
(* function has the blocks it leaves, and the binary is read once.            *)
(***************************************************************************)
f == program.functions[current]

Stages == {"CallSplitter", "AsmDumpAndCheck", "AdressResolver", "alignFunction", "InstructionLatency",
           "FRAMWaitState", "FRAMCacheAnalysis", "FillMuGraph", "done", "aborted"}

PassInv ==
  /\ program \in Programs
  /\ current \in DOMAIN program.functions
  /\ stage \in Stages
  /\ blocks = IF stage = "CallSplitter" THEN f.blocks ELSE FlattenSeq(split(f.blocks))
  /\ ELF = IF ELF.parsed THEN parseElf ELSE notParsed
  /\ ELF.parsed => AnalyzedFunctions = computeAnalyzedSet(program.callGraph, program.startFunction)
  /\ stage \in {"CallSplitter", "AsmDumpAndCheck", "AdressResolver", "aborted"} \/ ELF.parsed

LEMMA PassInvInit == PInit => PassInv
<1> SUFFICES ASSUME PInit PROVE PassInv
  OBVIOUS
<1>1. program \in Programs /\ current = 1 /\ stage = "CallSplitter" /\ ELF = notParsed
      /\ blocks = program.functions[1].blocks
  BY DEF PInit
<1>2. 1 \in DOMAIN program.functions
  BY <1>1, ProgramsAssumption DEF isProgram
<1> QED
  BY <1>1, <1>2 DEF PassInv, Stages, f, notParsed

LEMMA PassInvStep == PassInv /\ [PNext]_pvars => PassInv'
<1> SUFFICES ASSUME PassInv, [PNext]_pvars PROVE PassInv'
  OBVIOUS
<1>0. isProgram(program)
  BY ProgramsAssumption DEF PassInv
<1>1. CASE CallSplitter
  <2>1. /\ stage = "CallSplitter" /\ stage' = "AsmDumpAndCheck"
        /\ blocks' = FlattenSeq(split(blocks)) /\ blocks = f.blocks
        /\ UNCHANGED <<program, current, ELF, AnalyzedFunctions>>
    BY <1>1 DEF CallSplitter, PassInv, split
  <2> QED
    BY <2>1 DEF PassInv, Stages, f, parseElf
<1>2. CASE AsmDumpAndCheck
  <2>1. /\ stage = "AsmDumpAndCheck" /\ stage' \in {"AdressResolver", "aborted"}
        /\ UNCHANGED <<program, current, blocks, ELF, AnalyzedFunctions>>
    BY <1>2 DEF AsmDumpAndCheck
  <2> QED
    BY <2>1 DEF PassInv, Stages, f, parseElf
<1>3. CASE AdressResolver
  <2>1. /\ stage = "AdressResolver" /\ stage' \in {"alignFunction", "InstructionLatency"}
        /\ ELF' = IF ELF.parsed THEN ELF ELSE parseElf
        /\ AnalyzedFunctions' =
             IF ELF.parsed THEN AnalyzedFunctions ELSE computeAnalyzedSet(program.callGraph, program.startFunction)
        /\ UNCHANGED <<program, current, blocks>>
    BY <1>3 DEF AdressResolver
  <2>2. parseElf.parsed /\ parseElf' = parseElf
    BY <2>1 DEF parseElf, notParsed
  <2> QED
    BY <2>1, <2>2 DEF PassInv, Stages, f
<1>4. CASE alignFunction \/ InstructionLatency \/ FRAMWaitState \/ FRAMCacheAnalysis
  <2>1. /\ stage \in {"alignFunction", "InstructionLatency", "FRAMWaitState", "FRAMCacheAnalysis"}
        /\ stage' \in {"alignFunction", "InstructionLatency", "FRAMWaitState", "FRAMCacheAnalysis", "FillMuGraph"}
        /\ UNCHANGED <<program, current, blocks, ELF, AnalyzedFunctions>>
    BY <1>4 DEF alignFunction, InstructionLatency, FRAMWaitState, FRAMCacheAnalysis
  <2> QED
    BY <2>1 DEF PassInv, Stages, f, parseElf
<1>5. CASE FillMuGraph
  <2>1. stage = "FillMuGraph" /\ UNCHANGED <<program, ELF, AnalyzedFunctions>> /\ ELF.parsed
    BY <1>5 DEF FillMuGraph, PassInv
  <2>2. CASE current < Len(program.functions)
    <3>1. current' = current + 1 /\ stage' = "CallSplitter" /\ blocks' = program.functions[current + 1].blocks
      BY <1>5, <2>2 DEF FillMuGraph
    <3>2. current + 1 \in DOMAIN program.functions
      BY <1>0, <2>2 DEF isProgram, PassInv
    <3> QED
      BY <2>1, <3>1, <3>2 DEF PassInv, Stages, f, parseElf
  <2>3. CASE ~(current < Len(program.functions))
    <3>1. stage' = "done" /\ UNCHANGED <<current, blocks>>
      BY <1>5, <2>3 DEF FillMuGraph
    <3> QED
      BY <2>1, <3>1 DEF PassInv, Stages, f, parseElf
  <2> QED
    BY <2>2, <2>3
<1>6. CASE UNCHANGED pvars
  <2>1. UNCHANGED <<program, current, stage, blocks, ELF, AnalyzedFunctions>>
    BY <1>6 DEF pvars
  <2> QED
    BY <2>1 DEF PassInv, f, parseElf
<1> QED
  BY <1>1, <1>2, <1>3, <1>4, <1>5, <1>6 DEF PNext

LEMMA PassesKeepInv == PSpec => []PassInv
BY PassInvInit, PassInvStep, PTL DEF PSpec

LEMMA SplitFunction ==
  ASSUME PassInv, stage # "CallSplitter"
  PROVE  /\ blocks \in Seq(Seq(instructionsOf(f)))
         /\ code = FlattenSeq(f.blocks)
         /\ \A b \in DOMAIN blocks : CallsLast(blocks[b])
<1>1. f.blocks \in Seq(Seq(instructionsOf(f))) /\ blocks = FlattenSeq(split(f.blocks))
  BY ProgramsAssumption DEF PassInv, isProgram, f
<1> QED
  BY <1>1, SplitKeepsCode DEF code

(***************************************************************************)
(* CallsEndBlocks for every program: whatever the blocks are, after           *)
(* CallSplitter a call is the last instruction of its block.                 *)
(***************************************************************************)
THEOREM CallsAlwaysEndBlocks == PSpec => []CallsEndBlocks
<1>1. PassInv => CallsEndBlocks
  <2> SUFFICES ASSUME PassInv, stage # "CallSplitter"
               PROVE  \A b \in DOMAIN blocks : CallsLast(blocks[b])
    BY DEF CallsEndBlocks, CallsLast
  <2> QED
    BY SplitFunction
<1> QED
  BY <1>1, PassesKeepInv, PTL

-----------------------------------------------------------------------------
(***************************************************************************)
(* The function that enters the resolver has all the code of the program's,    *)
(* in its order, and the part of the binary that is its own.                 *)
(***************************************************************************)
LEMMA EntersLinked ==
  ASSUME PassInv, AdressResolver, stage' = "alignFunction"
  PROVE  /\ aligned /\ aligned' = FALSE /\ enter(linkedFunction(program, current))
         /\ program.elf # NoElf /\ name \in DOMAIN FunctionEntryAddr(program.elf)
<1>1. stage = "AdressResolver" /\ stage' # "InstructionLatency"
  BY DEF AdressResolver
<1>2. /\ name \in DOMAIN ELF'.entries /\ aligned /\ aligned' = FALSE
      /\ enter([code |-> code, range |-> rangeOf(program.elf, name)])
  BY <1>1 DEF AdressResolver
<1>3. ELF' = parseElf
  BY DEF AdressResolver, PassInv
<1>4. program.elf # NoElf
  BY <1>2, <1>3 DEF parseElf, notParsed
<1>5. ELF'.entries = FunctionEntryAddr(program.elf)
  BY <1>3, <1>4 DEF parseElf
<1>6. code = FlattenSeq(f.blocks)
  BY <1>1, SplitFunction
<1> QED
  BY <1>2, <1>4, <1>5, <1>6 DEF linkedFunction, f, name

LEMMA ResolverStep ==
  ASSUME FunctionsAreLinked, PassInv, [PNext]_pvars
  PROVE  [Next]_avars
<1>1. CASE AdressResolver
  <2>1. CASE stage' = "alignFunction"
    <3>1. /\ aligned /\ aligned' = FALSE /\ enter(linkedFunction(program, current))
          /\ program.elf # NoElf /\ program.functions[current].name \in DOMAIN FunctionEntryAddr(program.elf)
      BY <1>1, <2>1, EntersLinked DEF name
    <3>2. linkedFunction(program, current) \in Functions
      BY <3>1 DEF FunctionsAreLinked, PassInv
    <3> QED
      BY <3>1, <3>2 DEF Next, AlignFunction
  <2>2. CASE stage' # "alignFunction"
    BY <1>1, <2>2 DEF AdressResolver
  <2> QED
    BY <2>1, <2>2
<1>2. CASE alignFunction
  BY <1>2 DEF alignFunction, Next
<1>3. CASE CallSplitter \/ AsmDumpAndCheck \/ InstructionLatency \/ FRAMWaitState \/ FRAMCacheAnalysis \/ FillMuGraph
  BY <1>3 DEF CallSplitter, AsmDumpAndCheck, InstructionLatency, FRAMWaitState, FRAMCacheAnalysis, FillMuGraph
<1>4. CASE UNCHANGED pvars
  BY <1>4 DEF pvars
<1> QED
  BY <1>1, <1>2, <1>3, <1>4 DEF PNext

(***************************************************************************)
(* The passes implement the resolver: what they do to its variables is to     *)
(* give it, once each, the linked functions with all their code in order, and  *)
(* to let it run to its end before the next.                                *)
(***************************************************************************)
THEOREM PassesImplementResolver ==
  ASSUME FunctionsAreLinked
  PROVE  PSpec => ImplementsResolver
<1>1. PInit => Init
  BY DEF PInit
<1>2. FunctionsAreLinked /\ PassInv /\ [PNext]_pvars => [Next]_avars
  BY ResolverStep
<1> QED
  BY <1>1, <1>2, PassesKeepInv, PTL DEF PSpec, ImplementsResolver, Spec

(***************************************************************************)
(* So what is proved of the resolver holds of the passes.                   *)
(***************************************************************************)
THEOREM PassesResolve ==
  ASSUME FunctionsAreLinked
  PROVE  PSpec => [](/\ AddressTypeOK /\ AddressesIncrease /\ NeverAhead
                     /\ DriftEndsAtAnchors /\ SilentMeansExact)
BY PassesImplementResolver, ResolverTypes, ResolverOrders, ResolverNeverAhead, ResolverRecovers, SilenceIsExact,
   PTL DEF ImplementsResolver

-----------------------------------------------------------------------------
(***************************************************************************)
(* The start function: s[k] is what the first k functions leave of the        *)
(* reference.                                                              *)
(***************************************************************************)
refer(cg, s, x) ==
  IF s.start = NoStart \/ cg.refs[x] < cg.refs[s.start] THEN [s EXCEPT !.start = x]
  ELSE IF cg.refs[x] = cg.refs[s.start] THEN [s EXCEPT !.twice = TRUE] ELSE s

noReference == [start |-> NoStart, twice |-> FALSE]

ReferenceFold(g, cg) ==
  g = [s \in SUBSET DOMAIN cg.functions |->
         IF s = {} THEN noReference ELSE refer(cg, g[s \ {Max(s)}], cg.functions[Max(s)])]

References(cg) == [start : Names(cg) \cup {NoStart}, twice : BOOLEAN]

LEMMA ReferenceIsAFold ==
  ASSUME NEW cg
  PROVE  reference(cg) = (CHOOSE g : ReferenceFold(g, cg))[DOMAIN cg.functions]
BY DEF reference, FoldLeft, MapThenFoldSet, ReferenceFold, refer, noReference

LEMMA ReferenceType ==
  ASSUME NEW cg, NEW s \in References(cg), NEW x \in Names(cg)
  PROVE  refer(cg, s, x) \in References(cg)
BY DEF refer, References

LEMMA ReferenceFoldExists ==
  ASSUME NEW cg, cg.functions \in Seq(Names(cg))
  PROVE  \E g : ReferenceFold(g, cg)
<1> DEFINE n == Len(cg.functions)
           A == References(cg)
           step == [q \in (1 .. n) \X A |-> refer(cg, q[2], cg.functions[q[1]])]
<1>1. n \in Nat /\ DOMAIN cg.functions = 1 .. n /\ IsFiniteSet(1 .. n) /\ \A k \in 1 .. n : cg.functions[k] \in Names(cg)
  <2>1. n \in Nat /\ DOMAIN cg.functions = 1 .. n
    BY LenProperties
  <2>2. \A k \in 1 .. n : cg.functions[k] \in Names(cg)
    BY ElementOfSeq
  <2> HIDE DEF n
  <2> QED
    BY <2>1, <2>2, FS_Interval
<1>2. step \in [(1 .. n) \X A -> A]
  BY <1>1, ReferenceType
<1>3. noReference \in A
  BY DEF noReference, References
<1> HIDE DEF n, A
<1>4. PICK g : Folds(g, maxOf(n), step, noReference, 1 .. n)
  BY <1>1, MaxPicks, FoldsExist
<1>5. \A s \in SUBSET (1 .. n) : g[s] \in A
  <2> HIDE DEF step
  <2> QED
    BY <1>1, <1>2, <1>3, <1>4, MaxPicks, FoldsStay
<1>6. ASSUME NEW s \in SUBSET (1 .. n)
      PROVE  g[s] = IF s = {} THEN noReference ELSE refer(cg, g[s \ {Max(s)}], cg.functions[Max(s)])
  <2>1. g[s] = IF s = {} THEN noReference ELSE step[<<maxOf(n)[s], g[s \ {maxOf(n)[s]}]>>]
    <3> DEFINE pick == maxOf(n)
    <3> HIDE DEF step, pick
    <3>1. Folds(g, pick, step, noReference, 1 .. n)
      BY <1>4 DEF pick
    <3>2. g[s] = IF s = {} THEN noReference ELSE step[<<pick[s], g[s \ {pick[s]}]>>]
      BY <3>1 DEF Folds
    <3> QED
      BY <3>2 DEF pick
  <2>2. maxOf(n)[s] = Max(s) /\ (s # {} => Max(s) \in 1 .. n) /\ s \ {Max(s)} \in SUBSET (1 .. n)
    BY <1>1, MaxIsGreatest DEF maxOf
  <2>3. s # {} => <<Max(s), g[s \ {Max(s)}]>> \in (1 .. n) \X A
    BY <1>5, <2>2
  <2> QED
    BY <2>1, <2>2, <2>3
<1>7. g = [s \in SUBSET (1 .. n) |-> g[s]]
  BY <1>4 DEF Folds
<1>8. ReferenceFold(g, cg)
  BY <1>1, <1>6, <1>7 DEF ReferenceFold
<1> QED
  BY <1>8

LEMMA ReferenceUnfold ==
  ASSUME NEW cg, cg.functions \in Seq(Names(cg))
  PROVE  \E s : /\ s[0] = noReference
                /\ \A k \in 1 .. Len(cg.functions) : s[k] = refer(cg, s[k - 1], cg.functions[k])
                /\ reference(cg) = s[Len(cg.functions)]
<1> DEFINE g == CHOOSE h : ReferenceFold(h, cg)
           n == Len(cg.functions)
           s == [k \in Nat |-> g[1 .. k]]
<1>1. ReferenceFold(g, cg)
  BY ReferenceFoldExists
<1>2. reference(cg) = g[DOMAIN cg.functions]
  BY ReferenceIsAFold
<1>3. n \in Nat /\ DOMAIN cg.functions = 1 .. n
  BY LenProperties
<1> HIDE DEF g
<1>4. \A t \in SUBSET (1 .. n) :
        g[t] = IF t = {} THEN noReference ELSE refer(cg, g[t \ {Max(t)}], cg.functions[Max(t)])
  BY <1>1, <1>3 DEF ReferenceFold
<1> HIDE DEF n
<1>5. s[0] = noReference
  <2>1. 1 .. 0 = {}
    OBVIOUS
  <2> QED
    BY <1>4, <2>1
<1>6. ASSUME NEW k \in 1 .. n
      PROVE  s[k] = refer(cg, s[k - 1], cg.functions[k])
  <2>1. k - 1 \in Nat /\ (k - 1) + 1 = k /\ k \in 1 .. k /\ 1 .. k \in SUBSET (1 .. n) /\ k \in Nat
    BY <1>3
  <2>2. Max(1 .. k) = k /\ (1 .. k) \ {k} = 1 .. k - 1
    BY <2>1, MaxOfInterval
  <2>3. g[1 .. k] = refer(cg, g[(1 .. k) \ {Max(1 .. k)}], cg.functions[Max(1 .. k)])
    BY <1>4, <2>1
  <2> QED
    BY <2>1, <2>2, <2>3
<1>7. reference(cg) = s[n]
  BY <1>2, <1>3
<1> HIDE DEF s
<1> QED
  BY <1>5, <1>6, <1>7 DEF n

(***************************************************************************)
(* The reference has the fewest references, and alone if none equalled it.    *)
(***************************************************************************)
LEMMA ReferenceIsLeast ==
  ASSUME NEW cg, cg.functions \in Seq(Names(cg)), NoStart \notin Names(cg),
         \A x \in Names(cg) : cg.refs[x] \in Nat
  PROVE  LET r == reference(cg)
         IN  /\ r.start = NoStart \/ r.start \in Names(cg)
             /\ r.start = NoStart => Names(cg) = {}
             /\ r.start # NoStart /\ ~r.twice => \A x \in Names(cg) \ {r.start} : cg.refs[r.start] < cg.refs[x]
<1> DEFINE n == Len(cg.functions)
           fs == cg.functions
<1>1. PICK s : /\ s[0] = noReference
               /\ \A k \in 1 .. n : s[k] = refer(cg, s[k - 1], cg.functions[k])
               /\ reference(cg) = s[n]
  BY ReferenceUnfold
<1>2. n \in Nat /\ DOMAIN fs = 1 .. n /\ \A k \in 1 .. n : fs[k] \in Names(cg)
  BY LenProperties, ElementOfSeq
<1> HIDE DEF n
<1> DEFINE least(k) ==
             /\ s[k] \in References(cg)
             /\ s[k].start = NoStart => k = 0
             /\ s[k].start # NoStart => \A j \in 1 .. k : cg.refs[s[k].start] <= cg.refs[fs[j]]
             /\ s[k].start # NoStart /\ ~s[k].twice =>
                  \A j \in 1 .. k : fs[j] # s[k].start => cg.refs[s[k].start] < cg.refs[fs[j]]
           T == {k \in Nat : k <= n => least(k)}
<1>3. 0 \in T
  <2>1. s[0] \in References(cg) /\ s[0].start = NoStart
    BY <1>1 DEF References, noReference
  <2> QED
    BY <2>1
<1>4. ASSUME NEW k \in Nat, k \in T PROVE k + 1 \in T
  <2>1. SUFFICES ASSUME k + 1 <= n PROVE least(k + 1)
    OBVIOUS
  <2> DEFINE x == fs[k + 1]
             a == s[k].start
  <2>2. least(k) /\ k + 1 \in 1 .. n /\ (k + 1) - 1 = k
    BY <1>2, <1>4, <2>1
  <2>3. s[k + 1] = refer(cg, s[k], x) /\ x \in Names(cg) /\ cg.refs[x] \in Nat /\ x # NoStart
    BY <1>1, <1>2, <2>2
  <2>4. s[k] \in References(cg) /\ s[k + 1] \in References(cg)
    BY <2>2, <2>3, ReferenceType
  <2>5. \A j \in 1 .. k : fs[j] \in Names(cg) /\ cg.refs[fs[j]] \in Nat
    BY <1>2, <2>1
  <2>6. \A j \in 1 .. k + 1 : j \in 1 .. k \/ fs[j] = x
    OBVIOUS
  <2> HIDE DEF fs, x
  <2>7. CASE a = NoStart
    <3>1. k = 0 /\ s[k + 1] = [s[k] EXCEPT !.start = x]
      BY <2>2, <2>3, <2>7 DEF refer
    <3>2. s[k + 1].start = x
      BY <2>4, <3>1 DEF References
    <3>3. \A j \in 1 .. k + 1 : fs[j] = x
      BY <2>6, <3>1
    <3> QED
      BY <2>3, <2>4, <3>2, <3>3
  <2>8. CASE a # NoStart /\ cg.refs[x] < cg.refs[a]
    <3>1. a \in Names(cg) /\ cg.refs[a] \in Nat
      BY <2>4, <2>8 DEF References
    <3>2. s[k + 1] = [s[k] EXCEPT !.start = x]
      BY <2>3, <2>8 DEF refer
    <3>3. s[k + 1].start = x
      BY <2>4, <3>2 DEF References
    <3>4. \A j \in 1 .. k : cg.refs[x] < cg.refs[fs[j]]
      BY <2>2, <2>3, <2>5, <2>8, <3>1
    <3> QED
      BY <2>3, <2>4, <2>5, <2>6, <3>3, <3>4
  <2>9. CASE a # NoStart /\ ~(cg.refs[x] < cg.refs[a])
    <3>1. a \in Names(cg) /\ cg.refs[a] \in Nat
      BY <2>4, <2>9 DEF References
    <3>2. CASE cg.refs[x] = cg.refs[a]
      <4>1. s[k + 1] = [s[k] EXCEPT !.twice = TRUE]
        BY <2>3, <2>9, <3>2 DEF refer
      <4>2. s[k + 1].start = a /\ s[k + 1].twice
        BY <2>4, <4>1 DEF References
      <4> QED
        BY <2>2, <2>4, <2>5, <2>6, <2>9, <3>1, <3>2, <4>2
    <3>3. CASE cg.refs[x] # cg.refs[a]
      <4>1. s[k + 1] = s[k]
        BY <2>3, <2>9, <3>3 DEF refer
      <4>2. cg.refs[a] < cg.refs[x]
        BY <2>3, <2>9, <3>1, <3>3
      <4> QED
        BY <2>2, <2>3, <2>4, <2>5, <2>6, <2>9, <3>1, <4>1, <4>2
    <3> QED
      BY <3>2, <3>3
  <2> QED
    BY <2>7, <2>8, <2>9
<1> HIDE DEF T
<1>5. Nat \subseteq T
  BY <1>3, <1>4, NumberInduction
<1>6. least(n)
  BY <1>2, <1>5 DEF T
<1>7. Names(cg) = {fs[k] : k \in 1 .. n}
  BY <1>2 DEF Names, Range
<1> HIDE DEF fs
<1>8. n = 0 => Names(cg) = {}
  BY <1>7
<1> DEFINE r == s[n]
<1>9. r.start = NoStart \/ r.start \in Names(cg)
  BY <1>6 DEF References
<1>10. r.start = NoStart => Names(cg) = {}
  BY <1>6, <1>8
<1>11. r.start # NoStart /\ ~r.twice => \A x \in Names(cg) \ {r.start} : cg.refs[r.start] < cg.refs[x]
  BY <1>6, <1>7
<1>12. reference(cg) = r
  BY <1>1
<1> HIDE DEF r
<1> QED
  BY <1>9, <1>10, <1>11, <1>12

(***************************************************************************)
(* The resolver reports about every function the graph starts from, if the    *)
(* call graph is that of a program: nothing has fewer references than main,   *)
(* and a start function that is asked for exists.                           *)
(***************************************************************************)
THEOREM ScopeAlwaysCoversAnalysis ==
  ASSUME CallGraphsAreComplete, MainIsTheRoot
  PROVE  PSpec => []ScopeCoversAnalysis
<1>1. ASSUME PassInv, ELF.parsed
      PROVE  reachable(program.callGraph, findStartFunction(program.callGraph, program.startFunction))
               \subseteq AnalyzedFunctions
  <2> DEFINE cg == program.callGraph
             named == program.startFunction
             r == reference(cg)
  <2>1. program \in Programs /\ AnalyzedFunctions = computeAnalyzedSet(cg, named)
    BY <1>1 DEF PassInv
  <2>2. /\ cg.functions \in Seq(Names(cg)) /\ NoStart \notin Names(cg)
        /\ \A x \in Names(cg) : cg.refs[x] \in Nat
        /\ named \in Names(cg) \cup {""}
        /\ "main" \in Names(cg) => \A x \in Names(cg) : cg.refs["main"] <= cg.refs[x]
    BY <2>1 DEF CallGraphsAreComplete, MainIsTheRoot
  <2> HIDE DEF cg, named
  <2>3. \A x : reachable(cg, x) \subseteq Names(cg)
    BY DEF reachable
  <2>4. /\ r.start = NoStart \/ r.start \in Names(cg)
        /\ r.start # NoStart /\ ~r.twice => \A x \in Names(cg) \ {r.start} : cg.refs[r.start] < cg.refs[x]
    BY <2>2, ReferenceIsLeast
  <2> HIDE DEF r
  <2>5. CASE getStartingFunction(cg, named) = NoStart
    BY <2>1, <2>3, <2>5 DEF computeAnalyzedSet, cg, named
  <2>6. CASE getStartingFunction(cg, named) # NoStart
    <3>1. findStartFunction(cg, named) = getStartingFunction(cg, named)
      <4>1. CASE named \in Names(cg)
        BY <4>1 DEF findStartFunction, getStartingFunction
      <4>2. CASE named \notin Names(cg)
        <5>1. named = "" /\ r.start # NoStart /\ ~r.twice /\ getStartingFunction(cg, named) = r.start
          BY <2>2, <2>6, <4>2 DEF getStartingFunction, r
        <5>2. r.start \in Names(cg) /\ \A x \in Names(cg) \ {r.start} : cg.refs[r.start] < cg.refs[x]
          BY <2>4, <5>1
        <5>3. CASE "main" \in Names(cg)
          <6>1. cg.refs["main"] \in Nat /\ cg.refs[r.start] \in Nat /\ cg.refs["main"] <= cg.refs[r.start]
            BY <2>2, <5>2, <5>3
          <6>2. ~(cg.refs[r.start] < cg.refs["main"])
            BY <6>1
          <6>3. r.start = "main"
            BY <5>2, <5>3, <6>2
          <6> QED
            BY <4>2, <5>1, <5>3, <6>3 DEF findStartFunction
        <5>4. CASE "main" \notin Names(cg)
          <6>1. fewest(cg) = {r.start}
            <7> DEFINE o == r.start
            <7>1. o \in Names(cg) /\ cg.refs[o] \in Nat /\ \A x \in Names(cg) \ {o} : cg.refs[o] < cg.refs[x]
              BY <2>2, <5>2
            <7> HIDE DEF o
            <7>0. ASSUME NEW x \in Names(cg) PROVE cg.refs[x] \in Nat
              BY <2>2
            <7>2. ASSUME NEW x \in Names(cg) PROVE cg.refs[o] <= cg.refs[x]
              <8>1. cg.refs[x] \in Nat /\ (x # o => cg.refs[o] < cg.refs[x])
                BY <7>0, <7>1
              <8> QED
                BY <7>1, <8>1
            <7>3. ASSUME NEW x \in Names(cg) \ {o} PROVE ~(cg.refs[x] <= cg.refs[o])
              <8>1. cg.refs[x] \in Nat /\ cg.refs[o] < cg.refs[x]
                BY <7>0, <7>1
              <8> QED
                BY <7>1, <8>1
            <7> QED
              BY <7>1, <7>2, <7>3 DEF fewest, o
          <6>2. findStartFunction(cg, named) \in fewest(cg)
            <7>1. \E x \in fewest(cg) : \A y \in fewest(cg) \ {x} : <<x, y>> \in cg.smaller
              BY <6>1
            <7>2. Names(cg) # {}
              BY <5>2
            <7>3. findStartFunction(cg, named) =
                    CHOOSE x \in fewest(cg) : \A y \in fewest(cg) \ {x} : <<x, y>> \in cg.smaller
              BY <4>2, <5>4, <7>2 DEF findStartFunction
            <7> QED
              BY <7>1, <7>3
          <6> QED
            BY <5>1, <6>1, <6>2
        <5> QED
          BY <5>3, <5>4
      <4> QED
        BY <4>1, <4>2
    <3>2. AnalyzedFunctions = reachable(cg, getStartingFunction(cg, named))
      BY <2>1, <2>6 DEF computeAnalyzedSet, cg, named
    <3> QED
      BY <3>1, <3>2 DEF cg, named
  <2> QED
    BY <2>5, <2>6
<1>2. CallGraphsAreComplete /\ MainIsTheRoot /\ PassInv => ScopeCoversAnalysis
  BY <1>1 DEF ScopeCoversAnalysis
<1> QED
  BY <1>2, PassesKeepInv, PTL

-----------------------------------------------------------------------------
(***************************************************************************)
(* Cycles.                                                                 *)
(***************************************************************************)
Cycles == Nat \cup {NoLatency}

AllModes == {"mc", "mi", "mm", "mn", "mr", "rc", "ri", "rm", "rn", "rp", "rr", "mp"}

LEMMA FormatILatency ==
  ASSUME NEW op \in FormatI, NEW mode \in AllModes, NEW pc
  PROVE  formatI(op, mode, pc) \in Cycles
<1>0. shorter(op) \in {0, 1} /\ 4 - shorter(op) \in Nat /\ 5 - shorter(op) \in Nat /\ 6 - shorter(op) \in Nat
  BY DEF shorter
<1>1. CASE mode \in {"mc", "mi"}
  BY <1>0, <1>1 DEF formatI, toMemoryFromConstant, Cycles
<1>2. CASE mode \in {"mm", "mn", "mp"}
  BY <1>0, <1>2 DEF formatI, toMemoryFromMemory, Cycles
<1>3. CASE mode = "mr"
  BY <1>0, <1>3 DEF formatI, toMemoryFromRegister, Cycles
<1>4. CASE mode \in {"rc", "ri"}
  BY <1>4 DEF formatI, toRegisterFromConstant, Cycles
<1>5. CASE mode \in {"rm", "rn", "rp"}
  BY <1>5 DEF formatI, toRegisterFromMemory, Cycles
<1>6. CASE mode = "rr"
  BY <1>6 DEF formatI, toRegisterFromRegister, Cycles
<1> QED
  BY <1>1, <1>2, <1>3, <1>4, <1>5, <1>6 DEF AllModes

LEMMA OpcodesFormatI ==
  ASSUME NEW o, o \in CheckedAdditions \cup CheckedLogical \cup CheckedDifferences \/ o \in opcodes({"MOV"}, FormatIModes, {8, 16})
  PROVE  o.op \in FormatI /\ o.mode \in AllModes
BY DEF CheckedAdditions, CheckedLogical, CheckedDifferences, opcodes, FormatI, AllModes, FormatIModes, Arithmetic, Logical, Tested

\* Every instruction the target accepts has a cell in the table, or costs nothing.
LEMMA CheckedHasCycles ==
  ASSUME NEW o \in Checked, NEW pc
  PROVE  getInstructionLatency(o, pc) \in Nat
<1>1. SUFFICES latencyForOpcode(o, pc) \in Cycles
  BY DEF getInstructionLatency, Cycles
<1>2. CASE o.op \in FormatI /\ o.mode \in AllModes
  <2>1. latencyForOpcode(o, pc) = formatI(o.op, o.mode, pc)
    BY <1>2 DEF latencyForOpcode, FormatI, Arithmetic, Logical, Tested, Shifts, Swaps, Debug
  <2> QED
    BY <1>2, <2>1, FormatILatency
<1>3. CASE o.op = "MOVZX" /\ o.mode \in {"rm", "rr"}
  BY <1>3 DEF latencyForOpcode, toRegisterFromRegister, Cycles, Shifts, Swaps, FormatI, Arithmetic, Logical, Tested, Debug
<1>4. CASE o.op \in {"PUSH", "POP", "CALL"}
  BY <1>4 DEF latencyForOpcode, formatII, Shifts, Swaps, Cycles, FormatI, Arithmetic, Logical, Tested, Debug
<1>5. CASE o.op \in Shifts \cup Swaps \cup {"ZEXT"} /\ o.mode \in {"m", "n", "p", "r"}
  <2>1. latencyForOpcode(o, pc) = [r |-> 1, n |-> 3, p |-> 3, m |-> 4][o.mode]
    BY <1>5 DEF latencyForOpcode, formatII, Shifts, Swaps, FormatI, Arithmetic, Logical, Tested, Debug
  <2> QED
    BY <1>5, <2>1 DEF Cycles
<1>6. CASE o.op = "B" /\ o.mode \in {"i", "m", "r"}
  BY <1>6 DEF latencyForOpcode, toRegisterFromConstant, toRegisterFromRegister, Cycles, Shifts, Swaps, FormatI, Arithmetic, Logical, Tested, Debug
<1>7. CASE o.op \in {"JMP", "JCC", "RET", "RETI"}
  BY <1>7 DEF latencyForOpcode, formatIII, Shifts, Swaps, Cycles, FormatI, Arithmetic, Logical, Tested, Debug
<1>8. CASE o.op \in Debug \cup {"CFI_INSTRUCTION", "INLINEASM"}
  BY <1>8 DEF latencyForOpcode, Debug, Shifts, Swaps, Cycles, FormatI, Arithmetic, Logical, Tested
<1>9. o \in CheckedMoves => o \in opcodes({"MOV"}, FormatIModes, {8, 16}) \/ (o.op = "MOVZX" /\ o.mode \in {"rm", "rr"})
                             \/ o.op \in {"PUSH", "POP", "CALL"}
  BY DEF CheckedMoves
<1>10. o \in CheckedFormatII => (o.op \in Shifts \cup Swaps \cup {"ZEXT"} /\ o.mode \in {"m", "n", "p", "r"})
                                 \/ o.op \in {"PUSH", "POP", "CALL"}
  BY DEF CheckedFormatII
<1>11. o \in CheckedControl => (o.op = "B" /\ o.mode \in {"i", "m", "r"}) \/ o.op \in {"JMP", "JCC", "RET", "RETI"}
  BY DEF CheckedControl
<1>12. o \in CheckedIgnored => o.op \in Debug \cup {"CFI_INSTRUCTION", "INLINEASM"}
  BY DEF CheckedIgnored
<1> QED
  BY <1>2, <1>3, <1>4, <1>5, <1>6, <1>7, <1>8, <1>9, <1>10, <1>11, <1>12, OpcodesFormatI DEF Checked

LEMMA CyclesAreNumbers ==
  ASSUME NEW i, checkInstruction(i)
  PROVE  cycles(i) \in Nat
BY CheckedHasCycles DEF checkInstruction, cycles

-----------------------------------------------------------------------------
(***************************************************************************)
(* The device's time of a block, as a sum of InductionLemmas.                *)
(***************************************************************************)
dataOf(p, i) ==
  IF i.mem = << >> THEN Cardinality({a \in {"load", "store"} : IF a = "load" THEN i.mayLoad ELSE i.mayStore})
  ELSE Cardinality({k \in DOMAIN i.mem :
         /\ i.mem[k] \notin {"stack", "alloca"}
         /\ \/ i.mem[k] = "unknown"
            \/ Min({p.elf.symbols[s].addr : s \in {s \in DOMAIN p.elf.symbols : p.elf.symbols[s].name = i.mem[k]}})
                 >= p.framStart})

fetchesOf(p, i, range) ==
  IF emitsCode(i) /\ range[i.slot].addr >= p.framStart THEN range[i.slot].size ELSE 0

timesOf(p, block, range) ==
  [k \in DOMAIN block |-> cycles(block[k]) + p.waitStates * (dataOf(p, block[k]) + fetchesOf(p, block[k], range))]

timeOf(p, block, range) == total(timesOf(p, block, range), DOMAIN block)

cyclesOf(block) == total([k \in DOMAIN block |-> cycles(block[k])], DOMAIN block)

LEMMA DeviceTimeIsATotal ==
  \A block, range : deviceTime(block, range) = timeOf(program, block, range)
<1> SUFFICES ASSUME NEW block, NEW range PROVE deviceTime(block, range) = timeOf(program, block, range)
  OBVIOUS
<1>1. \A i : deviceData(i) = dataOf(program, i) /\ deviceFetches(i, range) = fetchesOf(program, i, range)
  BY DEF deviceData, dataOf, mayBeInFRAM, trueAddressOf, deviceFetches, fetchesOf
<1> DEFINE c == [k \in DOMAIN block |-> cycles(block[k])
                    + program.waitStates * (deviceData(block[k]) + deviceFetches(block[k], range))]
<1>2. deviceTime(block, range) = total(c, DOMAIN block)
  BY DEF deviceTime, sum, total, Sums, chosen, MapThenSumSet, MapThenFoldSet
<1>3. c = timesOf(program, block, range)
  BY <1>1 DEF timesOf
<1> QED
  BY <1>2, <1>3 DEF timeOf

LEMMA CyclesAreATotal ==
  ASSUME NEW block
  PROVE  sum(cycles, block) = cyclesOf(block)
BY DEF sum, cyclesOf, total, Sums, chosen, MapThenSumSet, MapThenFoldSet

-----------------------------------------------------------------------------
(***************************************************************************)
(* Data accesses.                                                          *)
(***************************************************************************)
LEMMA MinIsLeast ==
  ASSUME NEW S \in SUBSET Nat, S # {}
  PROVE  Min(S) \in S /\ \A x \in S : Min(S) <= x
<1>1. \E m \in S : \A k \in S : m <= k
  BY LeastNatural
<1> QED
  BY <1>1 DEF Min

LEMMA ObjectsHaveTheirAddress ==
  ASSUME NEW elf, hasSymbols(elf), NEW n \in DOMAIN DataObjects(elf)
  PROVE  /\ DataObjects(elf)[n].addr
              = Min({elf.symbols[s].addr : s \in {s \in DOMAIN elf.symbols : elf.symbols[s].name = n}})
         /\ DataObjects(elf)[n].addr \in Nat /\ n # "unknown"
<1> DEFINE objects == {k \in usable(elf) :
                         ~elf.symbols[k].isFunction /\ classifySection(elf.symbols[k].section) = "Data"}
           named == {k \in objects : elf.symbols[k].name = n}
           all == {s \in DOMAIN elf.symbols : elf.symbols[s].name = n}
           addrs == {elf.symbols[s].addr : s \in all}
           first == Min(named)
<1>1. n \in namesOf(elf, objects) /\ DataObjects(elf)[n].addr = firstAddr(elf, objects, n)
  BY DEF DataObjects
<1>2. named # {} /\ named \subseteq all /\ all \subseteq Nat
  <2>1. DOMAIN elf.symbols = 1 .. Len(elf.symbols) /\ Len(elf.symbols) \in Nat
    BY DEF hasSymbols
  <2>2. all \subseteq Nat
    BY <2>1
  <2>3. named # {}
    BY <1>1 DEF namesOf
  <2>4. named \subseteq all
    BY DEF usable
  <2> QED
    BY <2>2, <2>3, <2>4
<1>3. first \in named
  <2> HIDE DEF named
  <2> QED
    BY <1>2, MinIsLeast
<1>4. DataObjects(elf)[n].addr = elf.symbols[first].addr
  BY <1>1 DEF firstAddr
<1>5. first \in DOMAIN elf.symbols /\ elf.symbols[first].name = n /\ first \in all
  BY <1>2, <1>3
<1> HIDE DEF first
<1>6. elf.symbols[first].addr \in Nat /\ n # "unknown"
  BY <1>5 DEF hasSymbols
<1>7. addrs = {elf.symbols[first].addr}
  BY <1>5 DEF hasSymbols
<1>8. Min(addrs) = elf.symbols[first].addr
  <2> DEFINE a == elf.symbols[first].addr
  <2>1. {a} \in SUBSET Nat /\ {a} # {}
    BY <1>6
  <2> HIDE DEF a
  <2>2. Min({a}) \in {a}
    BY <2>1, MinIsLeast
  <2> QED
    BY <1>7, <2>2 DEF a
<1> QED
  BY <1>4, <1>6, <1>8

LEMMA DataIsCovered ==
  ASSUME NEW p, NEW i, hasSymbols(p.elf), p.framStart \in Nat, accessesAreTold(i)
  PROVE  LET words == framDataAccessWords(i, p.framStart, DataObjects(p.elf))
         IN  dataOf(p, i) \in Nat /\ words \in Nat /\ dataOf(p, i) <= words
<1> DEFINE words == framDataAccessWords(i, p.framStart, DataObjects(p.elf))
<1>1. i.mayLoad \in BOOLEAN /\ i.mayStore \in BOOLEAN
  BY DEF accessesAreTold
<1>2. CASE i.mem = << >>
  <2> DEFINE some == {a \in {"load", "store"} : IF a = "load" THEN i.mayLoad ELSE i.mayStore}
  <2>1. dataOf(p, i) = Cardinality(some)
    BY <1>2 DEF dataOf
  <2>2. words = (IF i.mayLoad THEN 1 ELSE 0) + (IF i.mayStore THEN 1 ELSE 0)
    BY <1>1, <1>2 DEF framDataAccessWords
  <2>3. CASE i.mayLoad /\ i.mayStore
    <3>1. some = {"load"} \cup {"store"} /\ "store" \notin {"load"}
      BY <2>3
    <3>2. Cardinality({"load"} \cup {"store"}) = Cardinality({"load"}) + 1
      <4>1. {"load"} \cup {"store"} = {"load", "store"} /\ IsFiniteSet({"load"})
        BY FS_Singleton
      <4> QED
        BY <3>1, FS_Singleton, FS_AddElement
    <3>3. Cardinality({"load"}) = 1
      BY FS_Singleton
    <3> QED
      BY <2>1, <2>2, <2>3, <3>1, <3>2, <3>3
  <2>4. CASE i.mayLoad /\ ~i.mayStore
    <3>1. some = {"load"}
      BY <2>4
    <3>2. Cardinality({"load"}) = 1
      BY FS_Singleton
    <3>3. words = 1
      BY <2>2, <2>4
    <3> HIDE DEF some
    <3> QED
      BY <2>1, <3>1, <3>2, <3>3
  <2>5. CASE ~i.mayLoad /\ i.mayStore
    <3>1. some = {"store"}
      BY <2>5
    <3> QED
      BY <2>1, <2>2, <2>5, <3>1, FS_Singleton
  <2>6. CASE ~i.mayLoad /\ ~i.mayStore
    <3>1. some = {}
      BY <2>6
    <3> QED
      BY <2>1, <2>2, <2>6, <3>1, FS_EmptySet
  <2> QED
    BY <1>1, <2>3, <2>4, <2>5, <2>6
<1>3. CASE i.mem # << >>
  <2> DEFINE objects == DataObjects(p.elf)
             kept == {k \in DOMAIN i.mem : ~isProvablyNonFRAMMemOperand(i.mem[k], p.framStart, objects)}
             inFRAM == {k \in DOMAIN i.mem :
                         /\ i.mem[k] \notin {"stack", "alloca"}
                         /\ \/ i.mem[k] = "unknown"
                            \/ Min({p.elf.symbols[s].addr :
                                      s \in {s \in DOMAIN p.elf.symbols : p.elf.symbols[s].name = i.mem[k]}})
                                 >= p.framStart}
  <2>1. dataOf(p, i) = Cardinality(inFRAM)
    BY <1>3 DEF dataOf
  <2>2. words = Cardinality(kept)
    <3>1. i.mayLoad \/ i.mayStore
      BY <1>3 DEF accessesAreTold
    <3> QED
      BY <1>3, <3>1 DEF framDataAccessWords
  <2>3. inFRAM \subseteq kept
    <3> SUFFICES ASSUME NEW k \in inFRAM, i.mem[k] \in DOMAIN objects, objects[i.mem[k]].addr < p.framStart
                 PROVE  FALSE
      BY DEF isProvablyNonFRAMMemOperand
    <3> DEFINE n == i.mem[k]
               least == Min({p.elf.symbols[s].addr :
                               s \in {s \in DOMAIN p.elf.symbols : p.elf.symbols[s].name = n}})
    <3>1. n = "unknown" \/ least >= p.framStart
      OBVIOUS
    <3>2. objects[n].addr = least /\ objects[n].addr \in Nat /\ n # "unknown"
      BY ObjectsHaveTheirAddress
    <3> HIDE DEF least, objects, n
    <3>3. objects[n].addr < p.framStart
      BY DEF n
    <3> QED
      BY <3>1, <3>2, <3>3
  <2>4. IsFiniteSet(kept)
    <3>1. IsFiniteSet(DOMAIN i.mem)
      <4>1. IsFiniteSet(1 .. Len(i.mem))
        <5>1. Len(i.mem) \in Nat
          BY DEF accessesAreTold
        <5> QED
          BY <5>1, FS_Interval
      <4> QED
        BY <4>1 DEF accessesAreTold
    <3> QED
      BY <3>1, FS_Subset
  <2>5. Cardinality(inFRAM) <= Cardinality(kept) /\ Cardinality(kept) \in Nat /\ Cardinality(inFRAM) \in Nat
    <3> HIDE DEF kept, inFRAM
    <3>1. IsFiniteSet(inFRAM) /\ Cardinality(inFRAM) <= Cardinality(kept)
      BY <2>3, <2>4, FS_Subset
    <3> QED
      BY <2>4, <3>1, FS_CardinalityType
  <2> QED
    BY <2>1, <2>2, <2>5
<1> QED
  BY <1>2, <1>3

-----------------------------------------------------------------------------
(***************************************************************************)
(* Fetches: behind the alignment of a one to one function the distances       *)
(* between addresses are the sizes of its instructions.                      *)
(***************************************************************************)
LEMMA FetchesAreCovered ==
  ASSUME isFunction(F), OneToOne(F), isContiguous(F.range), pos = Len(F.code) + 1, Exact, Traced
  PROVE  LET words == computeInstructionWords(F.code, InstructionAddress)
         IN  /\ \A x \in DOMAIN words : words[x] \in Nat
             /\ \A j \in DOMAIN F.code : emitsCode(F.code[j]) =>
                  LET i == F.code[j]
                  IN  /\ i.slot \in DOMAIN F.range /\ F.range[i.slot].size \in Nat
                      /\ i.id \in DOMAIN words /\ words[i.id] = F.range[i.slot].size
                      /\ InstructionAddress[i.id] = F.range[i.slot].addr
<1> DEFINE ids == {F.code[k].id : k \in DOMAIN F.code} \cap DOMAIN InstructionAddress
           addresses == {InstructionAddress[x] : x \in ids}
           words == computeInstructionWords(F.code, InstructionAddress)
           n == Len(F.range)
           addr(r) == F.range[r].addr
<1>1. /\ DOMAIN F.code = 1 .. Len(F.code) /\ Len(F.code) \in Nat
      /\ DOMAIN F.range = 1 .. n /\ n \in Nat
      /\ \A r \in 1 .. n : addr(r) \in Nat
      /\ \A q, r \in 1 .. n : q < r => addr(q) < addr(r)
  BY DEF isFunction
<1>2. /\ n > 0 /\ F.range[n].size = 1
      /\ \A r \in 1 .. n : F.range[r].size \in 1 .. MaxInstructionWords
      /\ \A r \in 1 .. n - 1 : addr(r + 1) = addr(r) + F.range[r].size
  BY <1>1 DEF isContiguous
<1>3. \A k \in DOMAIN F.code : k < pos
  BY <1>1
<1>4. \A k \in DOMAIN F.code : emitsCode(F.code[k]) =>
        /\ F.code[k].slot \in 1 .. n /\ F.code[k].id \in ids /\ InstructionAddress[F.code[k].id] = addr(F.code[k].slot)
  BY <1>1, <1>3 DEF Exact, resolved, addressOf, trueAddress, OneToOne, Faithful
<1>5. \A x \in ids : \E r \in 1 .. n : InstructionAddress[x] = addr(r)
  BY <1>1, <1>3 DEF Traced, resolved, addressOf
<1>6. addresses = {addr(r) : r \in 1 .. n}
  <2>1. \A r \in 1 .. n : \E k \in DOMAIN F.code : emitsCode(F.code[k]) /\ F.code[k].slot = r
    BY <1>1 DEF OneToOne
  <2>2. \A r \in 1 .. n : addr(r) \in addresses
    BY <1>4, <2>1
  <2> QED
    BY <1>5, <2>2
<1>7. DOMAIN words = ids /\ \A x \in ids : words[x] = fetchWords(InstructionAddress[x], addresses)
  BY DEF computeInstructionWords
<1> HIDE DEF ids, addresses, words, n
<1>8. ASSUME NEW r \in 1 .. n
      PROVE  fetchWords(addr(r), addresses) = F.range[r].size /\ F.range[r].size \in Nat
  <2> DEFINE above == {a \in addresses : a > addr(r)}
             size == F.range[r].size
  <2>0. size \in Nat /\ size <= MaxInstructionWords /\ size >= 1 /\ addr(r) \in Nat /\ r \in Nat
    BY <1>1, <1>2, WordsAssumption
  <2>1. CASE r = n
    <3>1. \A q \in 1 .. n : ~(addr(q) > addr(r))
      <4> SUFFICES ASSUME NEW q \in 1 .. n, addr(q) > addr(r) PROVE FALSE
        OBVIOUS
      <4>1. q = r \/ q < r
        BY <1>1, <2>1
      <4>2. addr(q) \in Nat /\ (q < r => addr(q) < addr(r))
        BY <1>1
      <4> HIDE DEF addr
      <4> QED
        BY <2>0, <4>1, <4>2
    <3>2. above = {}
      BY <1>6, <3>1
    <3> QED
      BY <1>2, <2>0, <2>1, <3>2 DEF fetchWords
  <2>2. CASE r # n
    <3>1. r + 1 \in 1 .. n /\ r \in 1 .. n - 1
      BY <1>1, <2>2
    <3>2. addr(r + 1) = addr(r) + size /\ addr(r + 1) \in Nat
      BY <1>1, <1>2, <3>1
    <3>3. \A q \in 1 .. n : addr(q) > addr(r) => addr(r + 1) <= addr(q)
      <4> SUFFICES ASSUME NEW q \in 1 .. n, addr(q) > addr(r) PROVE addr(r + 1) <= addr(q)
        OBVIOUS
      <4>1. addr(q) \in Nat /\ (q < r => addr(q) < addr(r)) /\ (r + 1 < q => addr(r + 1) < addr(q))
        BY <1>1, <3>1
      <4>2. q < r \/ q = r \/ q = r + 1 \/ r + 1 < q
        BY <2>0
      <4> HIDE DEF addr
      <4> QED
        BY <2>0, <3>2, <4>1, <4>2
    <3>4. addr(r + 1) \in above
      <4>1. addr(r + 1) \in addresses
        BY <1>6, <3>1
      <4> HIDE DEF addr
      <4> QED
        BY <2>0, <3>2, <4>1
    <3>5. above \subseteq Nat /\ above # {}
      BY <1>1, <1>6, <3>4
    <3>6. Min(above) \in above /\ \A a \in above : Min(above) <= a
      <4> HIDE DEF above
      <4> QED
        BY <3>5, MinIsLeast
    <3>7. \A a \in above : addr(r + 1) <= a
      BY <1>6, <3>3
    <3>8. Min(above) = addr(r + 1)
      <4> DEFINE m == Min(above)
                 b == addr(r + 1)
      <4>1. m \in Nat /\ b \in Nat /\ m <= b /\ b <= m
        BY <3>2, <3>4, <3>5, <3>6, <3>7
      <4> HIDE DEF m, b
      <4> QED
        BY <4>1 DEF m, b
    <3>9. fetchWords(addr(r), addresses)
            = IF above = {} \/ Min(above) - addr(r) > MaxInstructionWords THEN 1 ELSE Min(above) - addr(r)
      BY DEF fetchWords
    <3> HIDE DEF above, addr
    <3>10. Min(above) - addr(r) = size
      BY <2>0, <3>2, <3>8
    <3>11. ~(size > MaxInstructionWords)
      BY <2>0, WordsAssumption
    <3> HIDE DEF size
    <3> QED
      BY <2>0, <3>5, <3>9, <3>10, <3>11 DEF size
  <2> QED
    BY <2>1, <2>2
<1>9. \A x \in DOMAIN words : words[x] \in Nat
  BY <1>5, <1>7, <1>8
<1>10. \A j \in DOMAIN F.code : emitsCode(F.code[j]) =>
         LET i == F.code[j]
         IN  /\ i.slot \in DOMAIN F.range /\ F.range[i.slot].size \in Nat
             /\ i.id \in DOMAIN words /\ words[i.id] = F.range[i.slot].size
             /\ InstructionAddress[i.id] = F.range[i.slot].addr
  BY <1>1, <1>4, <1>7, <1>8
<1> QED
  BY <1>9, <1>10 DEF words

-----------------------------------------------------------------------------
\* The instructions of the blocks are those of the code.
LEMMA FlattenHas ==
  ASSUME NEW I, NEW seqs \in Seq(Seq(I)), NEW b \in DOMAIN seqs, NEW k \in DOMAIN seqs[b]
  PROVE  \E j \in DOMAIN FlattenSeq(seqs) : FlattenSeq(seqs)[j] = seqs[b][k]
<1> DEFINE n == Len(seqs)
           pre(m) == SubSeq(seqs, 1, m)
           has(m) == \E j \in DOMAIN FlattenSeq(pre(m)) : FlattenSeq(pre(m))[j] = seqs[b][k]
           T == {m \in Nat : b <= m /\ m <= n => has(m)}
<1>0. n \in Nat /\ DOMAIN seqs = 1 .. n /\ \A m \in 1 .. n : seqs[m] \in Seq(I)
  BY LenProperties, ElementOfSeq
<1> HIDE DEF n
<1>1. 0 \in T
  BY <1>0
<1>2. ASSUME NEW m \in Nat, m \in T PROVE m + 1 \in T
  <2>1. SUFFICES ASSUME b <= m + 1, m + 1 <= n PROVE has(m + 1)
    OBVIOUS
  <2> DEFINE u == pre(m)
             x == seqs[m + 1]
             a == FlattenSeq(u)
  <2>2. m + 1 \in 1 .. n /\ 1 \in 1 .. n /\ (m + 1) - 1 = m
    BY <1>0, <2>1
  <2>3. u \in Seq(Seq(I)) /\ x \in Seq(I)
    <3>1. \A i \in 1 .. m : seqs[i] \in Seq(I)
      BY <1>0, <2>1
    <3> QED
      BY <1>0, <2>2, <3>1, SubSeqProperties
  <2>4. pre(m + 1) = Append(u, x)
    <3>1. pre(m + 1) = u \o <<x>>
      BY <1>0, <2>2, SubSeqRecursiveSecond DEF n
    <3> HIDE DEF u, x
    <3>2. u \o <<x>> = Append(u, x)
      BY <2>3, AppendIsConcat
    <3> QED
      BY <3>1, <3>2
  <2>5. a \in Seq(I)
    <3> HIDE DEF u
    <3> QED
      BY <2>3, FlattenType
  <2>6. FlattenSeq(pre(m + 1)) = a \o x
    <3>1. FlattenSeq(Append(u, x)) = a \o x
      <4> HIDE DEF u, x
      <4> QED
        BY <2>3, FlattenAppend
    <3> QED
      BY <2>4, <3>1
  <2> HIDE DEF a
  <2>7. /\ Len(a \o x) = Len(a) + Len(x) /\ DOMAIN (a \o x) = 1 .. Len(a) + Len(x)
        /\ DOMAIN a = 1 .. Len(a) /\ DOMAIN x = 1 .. Len(x) /\ Len(a) \in Nat /\ Len(x) \in Nat
        /\ \A i \in 1 .. Len(a) + Len(x) : (a \o x)[i] = IF i <= Len(a) THEN a[i] ELSE x[i - Len(a)]
    <3> HIDE DEF x
    <3>1. /\ a \o x \in Seq(I) /\ Len(a \o x) = Len(a) + Len(x)
          /\ \A i \in 1 .. Len(a) + Len(x) : (a \o x)[i] = IF i <= Len(a) THEN a[i] ELSE x[i - Len(a)]
      BY <2>3, <2>5, ConcatProperties
    <3> QED
      BY <2>3, <2>5, <3>1, LenProperties
  <2>8. CASE b = m + 1
    <3>1. k \in 1 .. Len(x) /\ seqs[b][k] = x[k]
      BY <2>7, <2>8
    <3> DEFINE j == Len(a) + k
    <3>2. j \in 1 .. Len(a) + Len(x) /\ ~(j <= Len(a)) /\ j - Len(a) = k
      BY <2>7, <3>1
    <3>3. (a \o x)[j] = x[k]
      BY <2>7, <3>2
    <3> QED
      BY <2>6, <2>7, <3>1, <3>2, <3>3
  <2>9. CASE b # m + 1
    <3>1. has(m)
      BY <1>0, <1>2, <2>1, <2>9
    <3>2. PICK j \in DOMAIN a : a[j] = seqs[b][k]
      BY <3>1 DEF a
    <3>3. j \in 1 .. Len(a) + Len(x) /\ j <= Len(a)
      BY <2>7
    <3> QED
      BY <2>6, <2>7, <3>2, <3>3
  <2> QED
    BY <2>8, <2>9
<1> HIDE DEF T
<1>3. Nat \subseteq T
  BY <1>1, <1>2, NumberInduction
<1>4. has(n)
  BY <1>0, <1>3 DEF T
<1>5. pre(n) = seqs
  BY SubSeqFull DEF n
<1> QED
  BY <1>4, <1>5

-----------------------------------------------------------------------------
(***************************************************************************)
(* What the wait state pass reads of a function that is aligned one to one.   *)
(***************************************************************************)
AlignedOneToOne ==
  /\ isFunction(F) /\ OneToOne(F) /\ isContiguous(F.range) /\ code = F.code
  /\ pos = Len(F.code) + 1 /\ Exact /\ Traced
  /\ hasSymbols(program.elf) /\ program.framStart \in Nat /\ ELF.objects = DataObjects(program.elf)
  /\ \A k \in DOMAIN code : accessesAreTold(code[k])

LEMMA InstructionIsCovered ==
  ASSUME AlignedOneToOne, NEW j \in DOMAIN code
  PROVE  LET i == code[j]
         IN  /\ dataOf(program, i) \in Nat /\ valueOr0(DataWords, i.id) \in Nat
             /\ dataOf(program, i) <= valueOr0(DataWords, i.id)
             /\ fetchesOf(program, i, F.range) \in Nat /\ fetchPenalty(i) \in Nat
             /\ fetchesOf(program, i, F.range) <= fetchPenalty(i)
<1> DEFINE i == code[j]
           words(k) == framDataAccessWords(code[k], program.framStart, ELF.objects)
           accesses == {k \in DOMAIN code : words(k) > 0}
<1>1. \A k \in DOMAIN code : code[k].id = i.id => k = j
  BY DEF AlignedOneToOne, isFunction
<1>2. dataOf(program, i) \in Nat /\ words(j) \in Nat /\ dataOf(program, i) <= words(j)
  <2>1. hasSymbols(program.elf) /\ program.framStart \in Nat /\ accessesAreTold(i)
        /\ ELF.objects = DataObjects(program.elf)
    BY DEF AlignedOneToOne
  <2> HIDE DEF i
  <2>2. LET w == framDataAccessWords(i, program.framStart, DataObjects(program.elf))
        IN  dataOf(program, i) \in Nat /\ w \in Nat /\ dataOf(program, i) <= w
    BY <2>1, DataIsCovered
  <2> QED
    BY <2>1, <2>2 DEF i
<1>3. valueOr0(DataWords, i.id) = words(j)
  <2>1. DataWords = [x \in {code[k].id : k \in accesses} |-> words(CHOOSE k \in accesses : code[k].id = x)]
    BY DEF DataWords, computeDataAccessWords
  <2>2. CASE j \in accesses
    <3>1. (CHOOSE k \in accesses : code[k].id = i.id) = j
      BY <1>1, <2>2
    <3> HIDE DEF words, accesses
    <3>2. i.id \in DOMAIN DataWords /\ DataWords[i.id] = words(CHOOSE k \in accesses : code[k].id = i.id)
      BY <2>1, <2>2
    <3> QED
      BY <3>1, <3>2 DEF valueOr0
  <2>3. CASE j \notin accesses
    <3>1. i.id \notin {code[k].id : k \in accesses}
      BY <1>1, <2>3
    <3>2. words(j) = 0
      BY <1>2, <2>3
    <3> QED
      BY <2>1, <3>1, <3>2 DEF valueOr0
  <2> QED
    BY <2>2, <2>3
<1>4. /\ \A x \in DOMAIN Words : Words[x] \in Nat
      /\ emitsCode(i) => /\ F.range[i.slot].size \in Nat
                         /\ i.id \in DOMAIN Words /\ Words[i.id] = F.range[i.slot].size
                         /\ InstructionAddress[i.id] = F.range[i.slot].addr
  BY FetchesAreCovered DEF AlignedOneToOne, Words
<1> HIDE DEF i, words
<1>5. fetchPenalty(i) \in Nat
  BY <1>4 DEF fetchPenalty
<1>6. fetchesOf(program, i, F.range) \in Nat /\ fetchesOf(program, i, F.range) <= fetchPenalty(i)
  <2>1. CASE emitsCode(i) /\ F.range[i.slot].addr >= program.framStart
    <3>1. fetchesOf(program, i, F.range) = F.range[i.slot].size /\ fetchPenalty(i) = F.range[i.slot].size
      BY <1>4, <2>1 DEF fetchesOf, fetchPenalty
    <3> QED
      BY <1>4, <2>1, <3>1
  <2>2. CASE ~(emitsCode(i) /\ F.range[i.slot].addr >= program.framStart)
    <3>1. fetchesOf(program, i, F.range) = 0
      BY <2>2 DEF fetchesOf
    <3> QED
      BY <1>5, <3>1
  <2> QED
    BY <2>1, <2>2
<1> QED
  BY <1>2, <1>3, <1>5, <1>6 DEF i

LEMMA BlockIsCovered ==
  ASSUME AlignedOneToOne, NEW I, blocks \in Seq(Seq(I)), program.waitStates \in Nat,
         \A b \in DOMAIN blocks : \A k \in DOMAIN blocks[b] : checkInstruction(blocks[b][k]),
         NEW b \in DOMAIN blocks
  PROVE  /\ cyclesOf(blocks[b]) \in Nat /\ waitStates(b) \in Nat /\ timeOf(program, blocks[b], F.range) \in Nat
         /\ timeOf(program, blocks[b], F.range) <= cyclesOf(blocks[b]) + waitStates(b)
<1> DEFINE S == DOMAIN blocks[b]
           c == [k \in S |-> cycles(blocks[b][k])]
           w == [k \in S |-> valueOr0(DataWords, blocks[b][k].id) + fetchPenalty(blocks[b][k])]
           d == timesOf(program, blocks[b], F.range)
           m == program.waitStates
<1>1. IsFiniteSet(S)
  <2>1. blocks[b] \in Seq(I)
    BY ElementOfSeq, LenProperties
  <2>2. S = 1 .. Len(blocks[b]) /\ Len(blocks[b]) \in Nat
    BY <2>1, LenProperties
  <2> QED
    BY <2>2, FS_Interval
<1>2. ASSUME NEW k \in S
      PROVE  c[k] \in Nat /\ w[k] \in Nat /\ d[k] \in Nat /\ d[k] <= c[k] + m * w[k]
  <2> DEFINE i == blocks[b][k]
  <2>1. PICK j \in DOMAIN code : code[j] = i
    BY FlattenHas DEF code
  <2>2. /\ dataOf(program, i) \in Nat /\ valueOr0(DataWords, i.id) \in Nat
        /\ dataOf(program, i) <= valueOr0(DataWords, i.id)
        /\ fetchesOf(program, i, F.range) \in Nat /\ fetchPenalty(i) \in Nat
        /\ fetchesOf(program, i, F.range) <= fetchPenalty(i)
    BY <2>1, InstructionIsCovered
  <2>3. cycles(i) \in Nat
    BY CyclesAreNumbers
  <2>4. /\ c[k] = cycles(i) /\ w[k] = valueOr0(DataWords, i.id) + fetchPenalty(i)
        /\ d[k] = cycles(i) + m * (dataOf(program, i) + fetchesOf(program, i, F.range))
    BY DEF timesOf
  <2> HIDE DEF i, c, w, d, m
  <2>5. m \in Nat
    BY DEF m
  <2>6. ASSUME NEW x \in Nat, NEW y \in Nat, x <= y PROVE m * x <= m * y /\ m * x \in Nat /\ m * y \in Nat
    <3>1. y - x \in Nat /\ y = x + (y - x)
      BY <2>6
    <3>2. m * y = m * x + m * (y - x) /\ m * x \in Nat /\ m * (y - x) \in Nat
      BY <2>5, <3>1
    <3> QED
      BY <3>2
  <2> DEFINE x == dataOf(program, i) + fetchesOf(program, i, F.range)
             y == valueOr0(DataWords, i.id) + fetchPenalty(i)
  <2>7. x \in Nat /\ y \in Nat /\ x <= y
    BY <2>2
  <2> HIDE DEF x, y
  <2>8. m * x <= m * y /\ m * x \in Nat /\ m * y \in Nat
    BY <2>6, <2>7
  <2> QED
    BY <2>3, <2>4, <2>7, <2>8 DEF x, y
<1>3. waitStates(b) = m * total(w, S)
  BY DEF waitStates, sum, total, Sums, chosen, MapThenSumSet, MapThenFoldSet
<1>4. timeOf(program, blocks[b], F.range) = total(d, S) /\ cyclesOf(blocks[b]) = total(c, S)
  BY DEF timeOf, cyclesOf
<1> HIDE DEF S, c, w, d
<1>5. m \in Nat
  OBVIOUS
<1> HIDE DEF m
<1>6. total(d, S) <= total(c, S) + m * total(w, S)
  BY <1>1, <1>2, <1>5, TotalIsCovered
<1>7. total(d, S) \in Nat /\ total(c, S) \in Nat /\ total(w, S) \in Nat
  <2>1. \A k \in S : c[k] \in Nat /\ w[k] \in Nat /\ d[k] \in Nat
    BY <1>2
  <2> QED
    BY <1>1, <2>1, TotalIsANumber
<1>8. m * total(w, S) \in Nat
  BY <1>5, <1>7
<1> QED
  BY <1>3, <1>4, <1>6, <1>7, <1>8

-----------------------------------------------------------------------------
(***************************************************************************)
(* The time of a block on its way through the maps.  What the invariant says   *)
(* about a map is said of the blocks of one function, and keys name it: later  *)
(* functions do not touch what was given to it.                             *)
(***************************************************************************)
nameOf(h) == program.functions[h].name

\* Functions whose time the device's is compared with.
watched(h) ==
  waitsAreModelled /\ ~program.cache /\ program.elf # NoElf /\ isPlain(program.functions[h])

covers(map, bs, h) ==
  \A b \in DOMAIN bs :
    /\ <<nameOf(h), b>> \in DOMAIN map
    /\ map[<<nameOf(h), b>>] >= timeOf(program, bs[b], rangeOf(program.elf, nameOf(h)))

Told == ELF.parsed /\ program.elf = NoElf => UnsoundReasons # {}

HasItsBinary ==
  /\ stage = "alignFunction" => ~aligned /\ F = linkedFunction(program, current)
  /\ stage \in {"InstructionLatency", "FRAMWaitState"} /\ program.elf # NoElf
       /\ name \in DOMAIN FunctionEntryAddr(program.elf) => aligned /\ F = linkedFunction(program, current)

Known ==
  stage \in {"AdressResolver", "alignFunction", "InstructionLatency", "FRAMWaitState"} =>
    \A b \in DOMAIN blocks : \A k \in DOMAIN blocks[b] : checkInstruction(blocks[b][k])

afterLatency == {"FRAMWaitState", "FRAMCacheAnalysis", "FillMuGraph", "done"}

OldLatencies ==
  \A k \in DOMAIN latencies : \E h \in DOMAIN program.functions :
    k[1] = nameOf(h) /\ (h < current \/ (h = current /\ stage \in afterLatency))

OldNodes ==
  \A k \in DOMAIN MASG : \E h \in DOMAIN program.functions :
    k[1] = nameOf(h) /\ (h < current \/ (h = current /\ stage = "done"))

HasCycles ==
  stage = "FRAMWaitState" =>
    \A b \in DOMAIN blocks :
      <<name, b>> \in DOMAIN MBBLatencyMap /\ MBBLatencyMap[<<name, b>>] = cyclesOf(blocks[b])

HasWaits ==
  stage \in {"FRAMCacheAnalysis", "FillMuGraph"} /\ watched(current) => covers(MBBLatencyMap, blocks, current)

HasNodes ==
  \A h \in DOMAIN program.functions :
    (h < current \/ stage = "done") /\ watched(h) => covers(MASG, FlattenSeq(split(program.functions[h].blocks)), h)

TimesInv ==
  /\ Told /\ HasItsBinary /\ Known
  /\ OldLatencies /\ OldNodes
  /\ HasCycles /\ HasWaits /\ HasNodes

LEMMA TimesInvInit == PInit => TimesInv
<1> SUFFICES ASSUME PInit PROVE TimesInv
  OBVIOUS
<1>1. /\ program \in Programs /\ current = 1 /\ stage = "CallSplitter"
      /\ ELF.parsed = FALSE /\ latencies = << >> /\ MASG = << >>
  BY DEF PInit, notParsed
<1>2. DOMAIN latencies = {} /\ DOMAIN MASG = {}
  BY <1>1
<1>3. \A h \in DOMAIN program.functions : ~(h < current)
  BY <1>1, ProgramsAssumption DEF isProgram
<1> QED
  BY <1>1, <1>2, <1>3 DEF TimesInv, Told, HasItsBinary, Known, OldLatencies, OldNodes, HasCycles, HasWaits, HasNodes

\* Each of the parts is kept by every pass.
LEMMA ToldStep == PassInv /\ Told /\ [PNext]_pvars => Told'
<1> SUFFICES ASSUME PassInv, Told, [PNext]_pvars PROVE Told'
  OBVIOUS
<1>1. CASE AdressResolver
  <2>1. /\ program' = program /\ ELF' = IF ELF.parsed THEN ELF ELSE parseElf
        /\ UnsoundReasons' = UnsoundReasons \cup IF ~ELF.parsed /\ program.elf = NoElf THEN {"no -elf-file"} ELSE {}
    BY <1>1 DEF AdressResolver
  <2> QED
    BY <2>1 DEF Told
<1>2. CASE ~AdressResolver
  <2>1. UNCHANGED <<program, ELF, UnsoundReasons>>
    BY <1>2 DEF PNext, pvars, CallSplitter, AsmDumpAndCheck, alignFunction, InstructionLatency,
                FRAMWaitState, FRAMCacheAnalysis, FillMuGraph
  <2> QED
    BY <2>1 DEF Told
<1> QED
  BY <1>1, <1>2

LEMMA HasItsBinaryStep == PassInv /\ HasItsBinary /\ [PNext]_pvars => HasItsBinary'
<1> SUFFICES ASSUME PassInv, HasItsBinary, [PNext]_pvars PROVE HasItsBinary'
  OBVIOUS
<1>1. CASE AdressResolver
  <2>0. stage = "AdressResolver" /\ UNCHANGED <<program, current>> /\ stage' \in {"alignFunction", "InstructionLatency"}
        /\ name' = name
    BY <1>1 DEF AdressResolver, name
  <2>1. CASE stage' = "alignFunction"
    <3>1. aligned' = FALSE /\ enter(linkedFunction(program, current))
      BY <1>1, <2>1, EntersLinked
    <3>2. F' = linkedFunction(program, current)
      BY <3>1 DEF enter
    <3> QED
      BY <2>0, <2>1, <3>1, <3>2 DEF HasItsBinary
  <2>2. CASE stage' = "InstructionLatency"
    <3>1. name \notin DOMAIN ELF'.entries /\ ELF' = parseElf
      BY <1>1, <2>2 DEF AdressResolver, PassInv
    <3>2. program.elf # NoElf => name \notin DOMAIN FunctionEntryAddr(program.elf)
      BY <3>1 DEF parseElf
    <3> QED
      BY <2>0, <2>2, <3>2 DEF HasItsBinary
  <2> QED
    BY <2>0, <2>1, <2>2
<1>2. CASE alignFunction
  <2>1. /\ stage = "alignFunction" /\ Align /\ stage' = IF aligned' THEN "InstructionLatency" ELSE stage
        /\ UNCHANGED <<program, current>>
    BY <1>2 DEF alignFunction
  <2>2. F' = F
    BY <2>1 DEF Align, SkipDirective, RunOut, AssignNext, Resync, Mismatch, Finish
  <2> QED
    BY <2>1, <2>2 DEF HasItsBinary
<1>3. CASE InstructionLatency
  <2>1. stage = "InstructionLatency" /\ stage' = "FRAMWaitState" /\ UNCHANGED <<avars, program, current>>
    BY <1>3 DEF InstructionLatency
  <2> QED
    BY <2>1 DEF HasItsBinary, avars, name
<1>4. CASE CallSplitter \/ AsmDumpAndCheck \/ FRAMWaitState \/ FRAMCacheAnalysis \/ FillMuGraph
  <2>1. stage' \in {"AsmDumpAndCheck", "AdressResolver", "aborted", "FRAMCacheAnalysis", "FillMuGraph", "CallSplitter", "done"}
    BY <1>4 DEF CallSplitter, AsmDumpAndCheck, FRAMWaitState, FRAMCacheAnalysis, FillMuGraph
  <2> QED
    BY <2>1 DEF HasItsBinary
<1>5. CASE UNCHANGED pvars
  BY <1>5 DEF HasItsBinary, pvars, avars, name
<1> QED
  BY <1>1, <1>2, <1>3, <1>4, <1>5 DEF PNext

LEMMA KnownStep == PassInv /\ Known /\ [PNext]_pvars => Known'
<1> SUFFICES ASSUME PassInv, Known, [PNext]_pvars PROVE Known'
  OBVIOUS
<1>1. CASE AsmDumpAndCheck
  BY <1>1 DEF AsmDumpAndCheck, Known
<1>2. CASE AdressResolver \/ alignFunction \/ InstructionLatency
  <2>1. stage \in {"AdressResolver", "alignFunction", "InstructionLatency"} /\ UNCHANGED blocks
    BY <1>2 DEF AdressResolver, alignFunction, InstructionLatency
  <2> QED
    BY <2>1 DEF Known
<1>3. CASE CallSplitter \/ FRAMWaitState \/ FRAMCacheAnalysis \/ FillMuGraph
  <2>1. stage' \in {"AsmDumpAndCheck", "FRAMCacheAnalysis", "FillMuGraph", "CallSplitter", "done"}
    BY <1>3 DEF CallSplitter, FRAMWaitState, FRAMCacheAnalysis, FillMuGraph
  <2> QED
    BY <2>1 DEF Known
<1>4. CASE UNCHANGED pvars
  BY <1>4 DEF Known, pvars
<1> QED
  BY <1>1, <1>2, <1>3, <1>4 DEF PNext

LEMMA OldLatenciesStep == PassInv /\ OldLatencies /\ [PNext]_pvars => OldLatencies'
<1> SUFFICES ASSUME PassInv, OldLatencies, [PNext]_pvars PROVE OldLatencies'
  OBVIOUS
<1>0. current \in Nat /\ current \in DOMAIN program.functions
  BY ProgramsAssumption DEF PassInv, isProgram
<1>1. CASE InstructionLatency
  <2>1. /\ stage' = "FRAMWaitState" /\ UNCHANGED <<program, current>>
        /\ DOMAIN latencies' = DOMAIN latencies \cup blockKeys
    BY <1>1 DEF InstructionLatency, keyed, insert
  <2>2. \A k \in blockKeys : k[1] = nameOf(current)
    BY DEF blockKeys, name, nameOf
  <2> QED
    BY <1>0, <2>1, <2>2 DEF OldLatencies, nameOf, afterLatency
<1>2. CASE FillMuGraph
  <2>1. UNCHANGED <<program, latencies>> /\ \/ current' = current + 1
                                            \/ current' = current /\ stage' = "done"
    BY <1>2 DEF FillMuGraph
  <2>2. \A h \in DOMAIN program.functions : h \in Nat
    BY ProgramsAssumption DEF PassInv, isProgram
  <2> QED
    BY <1>0, <2>1, <2>2 DEF OldLatencies, nameOf, afterLatency
<1>3. CASE CallSplitter \/ AsmDumpAndCheck \/ AdressResolver \/ alignFunction
  <2>1. /\ stage \in {"CallSplitter", "AsmDumpAndCheck", "AdressResolver", "alignFunction"}
        /\ UNCHANGED <<program, current, latencies>>
    BY <1>3 DEF CallSplitter, AsmDumpAndCheck, AdressResolver, alignFunction
  <2> QED
    BY <2>1 DEF OldLatencies, nameOf, afterLatency
<1>4. CASE FRAMWaitState \/ FRAMCacheAnalysis
  <2>1. stage' \in {"FRAMCacheAnalysis", "FillMuGraph"} /\ UNCHANGED <<program, current, latencies>>
    BY <1>4 DEF FRAMWaitState, FRAMCacheAnalysis
  <2> QED
    BY <2>1 DEF OldLatencies, nameOf, afterLatency
<1>5. CASE UNCHANGED pvars
  BY <1>5 DEF OldLatencies, nameOf, afterLatency, pvars
<1> QED
  BY <1>1, <1>2, <1>3, <1>4, <1>5 DEF PNext

LEMMA OldNodesStep == PassInv /\ OldNodes /\ [PNext]_pvars => OldNodes'
<1> SUFFICES ASSUME PassInv, OldNodes, [PNext]_pvars PROVE OldNodes'
  OBVIOUS
<1>0. /\ current \in Nat /\ current \in DOMAIN program.functions
      /\ \A h \in DOMAIN program.functions : h \in Nat
  BY ProgramsAssumption DEF PassInv, isProgram
<1>1. CASE FillMuGraph
  <2>1. /\ stage = "FillMuGraph" /\ program' = program
        /\ DOMAIN MASG' = DOMAIN MASG \cup blockKeys
        /\ \/ current' = current + 1
           \/ current' = current /\ stage' = "done"
    BY <1>1 DEF FillMuGraph, keyed, insert
  <2>2. \A k \in blockKeys : k[1] = nameOf(current)
    BY DEF blockKeys, name, nameOf
  <2> QED
    BY <1>0, <2>1, <2>2 DEF OldNodes, nameOf
<1>2. CASE CallSplitter \/ AsmDumpAndCheck \/ AdressResolver \/ alignFunction \/ InstructionLatency
           \/ FRAMWaitState \/ FRAMCacheAnalysis
  <2>1. stage # "done" /\ UNCHANGED <<program, current, MASG>>
    BY <1>2 DEF CallSplitter, AsmDumpAndCheck, AdressResolver, alignFunction, InstructionLatency,
                FRAMWaitState, FRAMCacheAnalysis
  <2> QED
    BY <2>1 DEF OldNodes, nameOf
<1>3. CASE UNCHANGED pvars
  BY <1>3 DEF OldNodes, nameOf, pvars
<1> QED
  BY <1>1, <1>2, <1>3 DEF PNext

\* Names are the functions' own: no key of the function is there already.
LEMMA HasCyclesStep == PassInv /\ OldLatencies /\ HasCycles /\ [PNext]_pvars => HasCycles'
<1> SUFFICES ASSUME PassInv, OldLatencies, HasCycles, [PNext]_pvars PROVE HasCycles'
  OBVIOUS
<1>1. CASE InstructionLatency
  <2> DEFINE latency(b) == sum(cycles, blocks[b])
  <2>1. /\ stage = "InstructionLatency" /\ UNCHANGED <<program, current, blocks>>
        /\ MBBLatencyMap' = insert(latencies, keyed(latency))
    BY <1>1 DEF InstructionLatency
  <2>2. ASSUME NEW b \in DOMAIN blocks
        PROVE  /\ <<name, b>> \in DOMAIN MBBLatencyMap'
               /\ MBBLatencyMap'[<<name, b>>] = cyclesOf(blocks[b])
    <3>1. <<name, b>> \in blockKeys
      BY DEF blockKeys
    <3>2. <<name, b>> \notin DOMAIN latencies
      <4>1. SUFFICES ASSUME NEW h \in DOMAIN program.functions, name = nameOf(h),
                            h < current \/ (h = current /\ stage \in afterLatency)
                     PROVE  FALSE
        BY DEF OldLatencies
      <4>2. h = current /\ current \in Nat
        BY <4>1, ProgramsAssumption DEF name, nameOf, PassInv, isProgram
      <4> QED
        BY <2>1, <4>1, <4>2 DEF afterLatency
    <3>3. keyed(latency) = [k \in blockKeys |-> latency(k[2])]
      BY DEF keyed
    <3> HIDE DEF latency
    <3>4. /\ <<name, b>> \in DOMAIN keyed(latency)
          /\ keyed(latency)[<<name, b>>] = latency(b)
      BY <3>1, <3>3
    <3>5. /\ <<name, b>> \in DOMAIN (insert(latencies, keyed(latency)))
          /\ (insert(latencies, keyed(latency)))[<<name, b>>] = keyed(latency)[<<name, b>>]
      BY <3>2, <3>4 DEF insert
    <3>6. latency(b) = cyclesOf(blocks[b])
      BY CyclesAreATotal DEF latency
    <3> QED
      BY <2>1, <3>4, <3>5, <3>6
  <2>3. name' = name
    BY <2>1 DEF name
  <2> QED
    BY <2>1, <2>2, <2>3 DEF HasCycles, cyclesOf, cycles
<1>2. CASE ~InstructionLatency /\ ~UNCHANGED pvars
  <2>1. stage' # "FRAMWaitState"
    BY <1>2 DEF PNext, CallSplitter, AsmDumpAndCheck, AdressResolver, alignFunction, FRAMWaitState,
                FRAMCacheAnalysis, FillMuGraph
  <2> QED
    BY <2>1 DEF HasCycles
<1>3. CASE UNCHANGED pvars
  BY <1>3 DEF HasCycles, pvars, name, cyclesOf, cycles
<1> QED
  BY <1>1, <1>2, <1>3

-----------------------------------------------------------------------------
\* What makes a watched function one whose blocks are covered.
LEMMA WatchedIsAligned ==
  ASSUME PlainFunctionsAreLinked, PassInv, HasItsBinary, IInv, Even, stage = "FRAMWaitState", watched(current)
  PROVE  AlignedOneToOne /\ F.range = rangeOf(program.elf, name) /\ DOMAIN Words # {}
<1>1. /\ program \in Programs /\ current \in DOMAIN program.functions
      /\ program.elf # NoElf /\ program.framStart # NoAddress /\ isPlain(program.functions[current])
  BY DEF PassInv, watched, waitsAreModelled, hasFRAMStart
<1> DEFINE l == linkedFunction(program, current)
<1>2. /\ program.framStart \in Nat /\ hasSymbols(program.elf)
      /\ program.functions[current].name \in DOMAIN FunctionEntryAddr(program.elf)
      /\ OneToOne(l) /\ isContiguous(l.range)
      /\ \A k \in DOMAIN l.code : accessesAreTold(l.code[k])
  BY <1>1 DEF PlainFunctionsAreLinked
<1>3. aligned /\ F = l
  BY <1>1, <1>2 DEF HasItsBinary, name
<1>4. F.code = FlattenSeq(f.blocks) /\ F.range = rangeOf(program.elf, name)
  BY <1>3 DEF linkedFunction, f, name
<1>5. code = F.code
  BY <1>4, SplitFunction
<1>6. isFunction(F) /\ Traced /\ pos = Len(F.code) + 1
  BY <1>3 DEF IInv, Shape, Ended
<1>7. Exact
  BY <1>2, <1>3 DEF Even
<1>8. ELF.objects = DataObjects(program.elf)
  <2>1. ELF.parsed
    BY DEF PassInv
  <2> QED
    BY <1>1, <2>1 DEF PassInv, parseElf
<1>9. AlignedOneToOne
  <2> HIDE DEF l
  <2> QED
    BY <1>2, <1>3, <1>5, <1>6, <1>7, <1>8 DEF AlignedOneToOne
<1>10. DOMAIN Words # {}
  <2>1. OneToOne(F) /\ isContiguous(F.range)
    BY <1>9 DEF AlignedOneToOne
  <2>2. 1 \in DOMAIN F.range
    BY <1>6, <2>1 DEF isFunction, isContiguous
  <2>3. PICK k \in DOMAIN F.code : emitsCode(F.code[k]) /\ F.code[k].slot = 1
    BY <2>1, <2>2 DEF OneToOne
  <2>4. F.code[k].id \in DOMAIN computeInstructionWords(F.code, InstructionAddress)
    BY <1>6, <1>7, <2>1, <2>3, FetchesAreCovered
  <2> QED
    BY <1>5, <2>4 DEF Words
<1> QED
  BY <1>4, <1>9, <1>10

LEMMA HasWaitsStep ==
  ASSUME PlainFunctionsAreLinked, PassInv, IInv, Even, HasItsBinary, Known, HasCycles, HasWaits, [PNext]_pvars
  PROVE  HasWaits'
<1>1. CASE FRAMWaitState
  <2>0. stage = "FRAMWaitState" /\ UNCHANGED <<program, current, blocks>>
    BY <1>1 DEF FRAMWaitState
  <2>1. SUFFICES ASSUME watched(current) PROVE covers(MBBLatencyMap', blocks, current)
    BY <2>0 DEF HasWaits, watched, waitsAreModelled, hasFRAMStart, covers, nameOf
  <2>2. AlignedOneToOne /\ F.range = rangeOf(program.elf, name) /\ DOMAIN Words # {}
    BY <2>0, <2>1, WatchedIsAligned
  <2>3. charge(waitStates)
    BY <1>1, <2>1, <2>2 DEF FRAMWaitState, watched
  <2>4. MBBLatencyMap' = [k \in DOMAIN MBBLatencyMap |->
                            MBBLatencyMap[k] + IF k \in blockKeys THEN waitStates(k[2]) ELSE 0]
    BY <2>3 DEF charge
  <2>5. /\ blocks \in Seq(Seq(instructionsOf(f))) /\ program.waitStates \in Nat
        /\ \A b \in DOMAIN blocks : \A k \in DOMAIN blocks[b] : checkInstruction(blocks[b][k])
    BY <2>0, SplitFunction, ProgramsAssumption DEF PassInv, isProgram, Known
  <2>6. ASSUME NEW b \in DOMAIN blocks
        PROVE  /\ <<name, b>> \in DOMAIN MBBLatencyMap'
               /\ MBBLatencyMap'[<<name, b>>] >= timeOf(program, blocks[b], F.range)
    <3>1. /\ cyclesOf(blocks[b]) \in Nat /\ waitStates(b) \in Nat /\ timeOf(program, blocks[b], F.range) \in Nat
          /\ timeOf(program, blocks[b], F.range) <= cyclesOf(blocks[b]) + waitStates(b)
      BY <2>2, <2>5, BlockIsCovered
    <3>2. <<name, b>> \in DOMAIN MBBLatencyMap /\ MBBLatencyMap[<<name, b>>] = cyclesOf(blocks[b])
      BY <2>0 DEF HasCycles
    <3>3. <<name, b>> \in blockKeys
      BY DEF blockKeys
    <3>4. <<name, b>> \in DOMAIN MBBLatencyMap' /\ MBBLatencyMap'[<<name, b>>] = cyclesOf(blocks[b]) + waitStates(b)
      BY <2>4, <3>2, <3>3
    <3> QED
      BY <3>1, <3>4
  <2>7. nameOf(current) = name
    BY DEF nameOf, name
  <2> QED
    BY <2>2, <2>6, <2>7 DEF covers
<1>2. CASE FRAMCacheAnalysis
  <2>1. /\ stage = "FRAMCacheAnalysis" /\ UNCHANGED <<program, current, blocks>>
        /\ ~program.cache => MBBLatencyMap' = MBBLatencyMap
    BY <1>2 DEF FRAMCacheAnalysis
  <2> QED
    BY <2>1 DEF HasWaits, watched, waitsAreModelled, hasFRAMStart, covers, nameOf
<1>3. CASE CallSplitter \/ AsmDumpAndCheck \/ AdressResolver \/ alignFunction \/ InstructionLatency \/ FillMuGraph
  <2>1. stage' \notin {"FRAMCacheAnalysis", "FillMuGraph"}
    BY <1>3 DEF CallSplitter, AsmDumpAndCheck, AdressResolver, alignFunction, InstructionLatency, FillMuGraph
  <2> QED
    BY <2>1 DEF HasWaits
<1>4. CASE UNCHANGED pvars
  <2>1. UNCHANGED <<program, current, blocks, stage, MBBLatencyMap>>
    BY <1>4 DEF pvars
  <2> QED
    BY <2>1 DEF HasWaits, watched, waitsAreModelled, hasFRAMStart, covers, nameOf
<1> QED
  BY <1>1, <1>2, <1>3, <1>4 DEF PNext

\* The node of a block gets what the map has for it, and keeps it.
LEMMA HasNodesStep ==
  ASSUME PassInv, OldNodes, HasWaits, HasNodes, [PNext]_pvars
  PROVE  HasNodes'
<1>0. /\ program \in Programs /\ isProgram(program) /\ current \in DOMAIN program.functions /\ current \in Nat
      /\ \A h \in DOMAIN program.functions : h \in Nat /\ h <= Len(program.functions)
      /\ Len(program.functions) \in Nat
  BY ProgramsAssumption DEF PassInv, isProgram
<1>1. CASE FillMuGraph
  <2> DEFINE latency(b) == valueOr0(MBBLatencyMap, <<name, b>>)
  <2>1. /\ stage = "FillMuGraph" /\ program' = program /\ MASG' = insert(MASG, keyed(latency))
        /\ \/ current' = current + 1 /\ stage' = "CallSplitter"
           \/ current' = current /\ ~(current < Len(program.functions)) /\ stage' = "done"
    BY <1>1 DEF FillMuGraph
  <2>2. keyed(latency) = [k \in blockKeys |-> latency(k[2])]
    BY DEF keyed
  <2> HIDE DEF latency
  <2>3. ASSUME NEW h \in DOMAIN program.functions, h < current \/ h = current, watched(h)
        PROVE  covers(MASG', FlattenSeq(split(program.functions[h].blocks)), h)
    <3>1. CASE h < current
      <4>1. covers(MASG, FlattenSeq(split(program.functions[h].blocks)), h)
        BY <2>3, <3>1 DEF HasNodes
      <4> QED
        BY <2>1, <4>1 DEF covers, insert
    <3>2. CASE h = current
      <4>1. blocks = FlattenSeq(split(program.functions[h].blocks))
        BY <2>1, <3>2 DEF PassInv, f
      <4>2. covers(MBBLatencyMap, blocks, current)
        BY <2>1, <2>3, <3>2 DEF HasWaits
      <4>3. nameOf(current) = name
        BY DEF nameOf, name
      <4>4. ASSUME NEW b \in DOMAIN blocks
            PROVE  <<name, b>> \in DOMAIN MASG' /\ MASG'[<<name, b>>] = MBBLatencyMap[<<name, b>>]
        <5>1. <<name, b>> \in blockKeys
          BY DEF blockKeys
        <5>2. <<name, b>> \notin DOMAIN MASG
          <6>1. SUFFICES ASSUME NEW g \in DOMAIN program.functions, name = nameOf(g), g < current
                         PROVE  FALSE
            BY <2>1 DEF OldNodes
          <6> QED
            <7>1. program.functions[g].name = program.functions[current].name
              BY <6>1 DEF nameOf, name
            <7>2. g = current
              BY <1>0, <7>1 DEF isProgram
            <7> QED
              BY <1>0, <6>1, <7>2
        <5>3. latency(b) = MBBLatencyMap[<<name, b>>]
          BY <4>2, <4>3 DEF latency, valueOr0, covers
        <5>4. keyed(latency)[<<name, b>>] = latency(b) /\ <<name, b>> \in DOMAIN keyed(latency)
          BY <2>2, <5>1
        <5> QED
          BY <2>1, <5>2, <5>3, <5>4 DEF insert
      <4> QED
        BY <3>2, <4>1, <4>2, <4>3, <4>4 DEF covers
    <3> QED
      BY <2>3, <3>1, <3>2
  <2>4. ASSUME NEW h \in DOMAIN program.functions, h < current' \/ stage' = "done"
        PROVE  h < current \/ h = current
    BY <1>0, <2>1, <2>4
  <2> QED
    BY <2>1, <2>3, <2>4 DEF HasNodes, watched, waitsAreModelled, hasFRAMStart, covers, nameOf
<1>2. CASE CallSplitter \/ AsmDumpAndCheck \/ AdressResolver \/ alignFunction \/ InstructionLatency
           \/ FRAMWaitState \/ FRAMCacheAnalysis
  <2>1. stage' # "done" /\ UNCHANGED <<program, current, MASG>>
    BY <1>2 DEF CallSplitter, AsmDumpAndCheck, AdressResolver, alignFunction, InstructionLatency,
                FRAMWaitState, FRAMCacheAnalysis
  <2> QED
    BY <2>1 DEF HasNodes, watched, waitsAreModelled, hasFRAMStart, covers, nameOf
<1>3. CASE UNCHANGED pvars
  <2>1. UNCHANGED <<program, current, stage, MASG>>
    BY <1>3 DEF pvars
  <2> QED
    BY <2>1 DEF HasNodes, watched, waitsAreModelled, hasFRAMStart, covers, nameOf
<1> QED
  BY <1>1, <1>2, <1>3 DEF PNext

LEMMA TimesInvStep ==
  ASSUME PlainFunctionsAreLinked, PassInv, IInv, Even, TimesInv, [PNext]_pvars
  PROVE  TimesInv'
BY ToldStep, HasItsBinaryStep, KnownStep, OldLatenciesStep, OldNodesStep, HasCyclesStep, HasWaitsStep, HasNodesStep
   DEF TimesInv

(***************************************************************************)
(* BlockTimeIsCovered for every program: no block of a linked function without *)
(* inline assembly is given less than the device takes for it, and what is     *)
(* done for other functions does not change that.                            *)
(***************************************************************************)
THEOREM BlockTimeIsAlwaysCovered ==
  ASSUME FunctionsAreLinked, PlainFunctionsAreLinked
  PROVE  PSpec => []BlockTimeIsCovered
<1>1. PInit => IInv /\ Even
  <2>1. PInit => Init
    BY DEF PInit
  <2>2. Init => Even
    BY DEF Init, noFunction, Even, Exact
  <2> QED
    BY <2>1, <2>2, InitiallyInv
<1>2. FunctionsAreLinked /\ PassInv /\ IInv /\ Even /\ [PNext]_pvars => IInv' /\ Even'
  <2>1. IInv /\ [Next]_avars => IInv'
    BY EnterLemma, SkipLemma, AssignNextLemma, ResyncLemma, MismatchLemma, FinishLemma, StutterLemma DEF Next, Align
  <2> QED
    BY <2>1, ResolverStep, EvenStep
<1>3. PSpec => [](IInv /\ Even)
  BY <1>1, <1>2, PassesKeepInv, PTL DEF PSpec
<1>4. PlainFunctionsAreLinked /\ PassInv /\ IInv /\ Even /\ TimesInv /\ [PNext]_pvars => TimesInv'
  BY TimesInvStep
<1>5. PSpec => []TimesInv
  BY <1>3, <1>4, PassesKeepInv, TimesInvInit, PTL DEF PSpec
<1>6. PassInv /\ TimesInv => BlockTimeIsCovered
  <2> SUFFICES ASSUME PassInv, TimesInv, stage = "done", waitsAreModelled, ~program.cache, UnsoundReasons = {},
                      NEW g \in DOMAIN program.functions, isPlain(program.functions[g]),
                      NEW b \in DOMAIN FlattenSeq(split(program.functions[g].blocks))
               PROVE  MASG[<<program.functions[g].name, b>>] >=
                        deviceTime(FlattenSeq(split(program.functions[g].blocks))[b],
                                   rangeOf(program.elf, program.functions[g].name))
    BY DEF BlockTimeIsCovered, split
  <2>1. program.elf # NoElf
    BY DEF PassInv, TimesInv, Told
  <2>2. covers(MASG, FlattenSeq(split(program.functions[g].blocks)), g)
    BY <2>1 DEF TimesInv, HasNodes, watched
  <2> QED
    BY <2>2, DeviceTimeIsATotal DEF covers, nameOf
<1> QED
  BY <1>5, <1>6, PassesKeepInv, PTL
=============================================================================
