--------------------------- MODULE QsgwCheckpoint ---------------------------
(***************************************************************************)
(* The QSGW checkpoint format (core/qsgw/checkpoint.cpp): an untagged      *)
(* binary stream whose layout depends on the settings of the job and on a  *)
(* version number, read back by a program with settings of its own.  The   *)
(* stream is a sequence of numbers; a group of numbers that is written and *)
(* compared as a whole (a mean field, a set of AO operators) is one of     *)
(* them.  The files of earlier program versions are kept, because the      *)
(* reader still admits some of them.                                       *)
(***************************************************************************)
EXTENDS Naturals, Sequences

CONSTANTS Input,    \* immutable numerical inputs a job can start from
          Setting,  \* values of the remaining bound settings
          Data,     \* live states that can be saved
          MaxSaved  \* bound: iteration number in a file

ASSUME FormatAssumption ==
  Input \cup Setting \cup Data \subseteq Nat /\ MaxSaved \in Nat \ {0}

(* CheckpointContext: what the job of the writer or reader is set up with. *)
Context ==
  [band: BOOLEAN, cut: {0, 1}, head: {0, 3}, hartree: BOOLEAN,
   mode: {"reference", "rotate_reference", "current_hr"},
   input: Input, setting: Setting]

Saved == [iter: 1 .. MaxSaved, conv: {0, 1}, data: Data]

Live(c)    == c.head # 0 /\ c.mode # "reference"
Native(c)  == Live(c) /\ c.mode = "current_hr"
Shifted(c) == c.cut = 1

ByteOrder == 1234
RefTag    == 1001      \* REFERENCE_VELOCITY_TAG
NativeTag == 1002      \* NATIVE_VELOCITY_TAG
HartreeTag == 1003

Bit(b) == IF b THEN 1 ELSE 0
If(b, s) == IF b THEN s ELSE <<>>
-----------------------------------------------------------------------------
(* Mutant: the envelope of a Hartree run is not marked. *)
VersionWithoutEnvelope(c) ==
  IF Native(c) THEN IF Shifted(c) THEN 11 ELSE 10
  ELSE IF Shifted(c) THEN IF Live(c) THEN 9 ELSE 8
  ELSE IF Live(c) THEN 5 ELSE 3

Version(c) ==
  (IF Native(c) THEN IF Shifted(c) THEN 11 ELSE 10
   ELSE IF Shifted(c) THEN IF Live(c) THEN 9 ELSE 8
   ELSE IF Live(c) THEN 5 ELSE 3)
  + IF c.hartree THEN 200 ELSE 0

(* write_context: fixed-mixer and metric codes are part of it since        *)
(* versions 2 and 3.                                                       *)
ContextPart(c, cutcode, version) ==
  <<Bit(c.band), cutcode, c.setting, c.head>>
  \o If(version >= 2, <<0>>) \o If(version >= 3, <<0>>)
  \o <<c.input>> \o If(c.band, <<c.input>>)

HartreePart(c) == <<c.input, HartreeTag, c.input>>

VelocityPart(c, tag) ==
  <<tag, IF c.mode = "current_hr" THEN 1 ELSE 2, c.input>>

StatePart(c, s) == <<s.iter, s.conv, s.data>> \o If(c.band, <<s.data>>)

(* write_qsgw_checkpoint. *)
Written(c, s) ==
  <<Version(c), ByteOrder>> \o ContextPart(c, c.cut, 3)
  \o If(c.hartree, HartreePart(c))
  \o If(Live(c), VelocityPart(c, IF Native(c) THEN NativeTag ELSE RefTag))
  \o StatePart(c, s)

(* Files of earlier programs.  1-3: no live velocity and an unshifted cut. *)
(* 5: live velocity with HWV1 tag, whole-H interpolation for current_hr.   *)
(* 6, 7: the mode-2 shifted cut.  9: version 5 with the shifted cut.       *)
(* 103: the direct-R Hartree path.                                         *)
OldVersion(v, c) ==
  /\ v \in {1, 2, 3, 103} => ~ Live(c)
  /\ v \in {5, 9} => Live(c)
  /\ v \in {6, 7, 9} => Shifted(c)
  /\ c.hartree <=> v = 103

OldWritten(v, c, s) ==
  <<v, ByteOrder>>
  \o ContextPart(c, IF v \in {6, 7} THEN 2 ELSE c.cut, v)
  \o If(v = 103, HartreePart(c))
  \o If(Live(c) /\ v \in {5, 7, 9}, VelocityPart(c, RefTag))
  \o StatePart(c, s)
-----------------------------------------------------------------------------
(* read_qsgw_checkpoint as the values it lets pass, in stream order.       *)
ContextPattern(c, version) ==
  <<{Bit(c.band)}, {c.cut}, {c.setting}, {c.head}>>
  \o If(version >= 2, <<{0}>>) \o If(version >= 3, <<{0}>>)
  \o <<{c.input}>> \o If(c.band, <<{c.input}>>)

HartreePattern(c) == <<{c.input}, {HartreeTag}, {c.input}>>

(* Mutant: the marker and mode of the velocity context are not compared. *)
LaxVelocityPattern(c) == <<{RefTag, NativeTag}, {1, 2}, {c.input}>>

VelocityPattern(c) ==
  <<{IF Native(c) THEN NativeTag ELSE RefTag},
    {IF c.mode = "current_hr" THEN 1 ELSE 2}, {c.input}>>

StatePattern(c) == <<1 .. MaxSaved, {0, 1}, Data>> \o If(c.band, <<Data>>)

Pattern(c, version) ==
  ContextPattern(c, version) \o If(c.hartree, HartreePattern(c))
  \o If(Live(c), VelocityPattern(c)) \o StatePattern(c)

Number(f) == IF f[1] >= 200 THEN f[1] - 200 ELSE f[1]

HeaderFits(f, c) ==
  /\ Len(f) >= 2
  /\ f[1] \notin 100 .. 199
  /\ Number(f) \in {1, 2, 3, 5, 6, 7, 8, 9, 10, 11} /\ f[2] = ByteOrder
  /\ (f[1] >= 200) = c.hartree
  /\ Number(f) \notin {6, 7}
  /\ (Number(f) \in {10, 11}) = Native(c)
  /\ (Number(f) \in {8, 9, 11}) = Shifted(c)
  /\ (Number(f) \in {5, 9, 10, 11}) = Live(c)

(* Mutant: what follows the last field is not looked at. *)
BodyStarts(f, c) ==
  LET p == Pattern(c, Number(f))
  IN Len(f) - 2 >= Len(p) /\ \A i \in 1 .. Len(p) : f[i + 2] \in p[i]

(* Nothing may be missing, nothing may follow. *)
BodyFits(f, c) ==
  LET p == Pattern(c, Number(f))
  IN Len(f) - 2 = Len(p) /\ \A i \in 1 .. Len(p) : f[i + 2] \in p[i]

Accepts(f, c) == HeaderFits(f, c) /\ BodyFits(f, c)

(* Mutant: the position before it, as if positions started at 0. *)
StateOneEarly(f, c) == Len(f) - Len(StatePattern(c))

(* Position of the iteration number for a reader that accepted the file.   *)
StateAt(f, c) == Len(f) - Len(StatePattern(c)) + 1
-----------------------------------------------------------------------------
VARIABLES file,     \* the stream, empty if there is none
          origin,   \* how it came about, as history
          live,     \* the state the reader holds, Unread until it read one
          reader    \* the settings the last reader had, NoOne before

vars == <<file, origin, live, reader>>

Unread == [iter |-> 0, conv |-> 0, data |-> 0]

NoOne == [by |-> "none"]

Init == file = <<>> /\ origin = NoOne /\ live = Unread /\ reader = NoOne

Write(c, s) ==
  /\ file' = Written(c, s)
  /\ origin' = [by |-> "this", ctx |-> c, state |-> s, whole |-> TRUE,
                version |-> Version(c)]
  /\ UNCHANGED <<live, reader>>

WriteOld(v, c, s) ==
  /\ OldVersion(v, c)
  /\ file' = OldWritten(v, c, s)
  /\ origin' = [by |-> "old", ctx |-> c, state |-> s, whole |-> TRUE,
                version |-> v]
  /\ UNCHANGED <<live, reader>>

(* A copy that stopped early, or has something behind it.                  *)
Damage(f) ==
  /\ file' = f
  /\ origin' = [origin EXCEPT !.whole = FALSE]
  /\ UNCHANGED <<live, reader>>

(* The live state is replaced as a whole, after everything was accepted.   *)
Read(c) ==
  /\ file # <<>>
  /\ reader' = [by |-> "job", ctx |-> c]
  /\ live' = IF Accepts(file, c)
               THEN LET i == StateAt(file, c)
                    IN [iter |-> file[i], conv |-> file[i + 1],
                        data |-> file[i + 2]]
               ELSE live
  /\ UNCHANGED <<file, origin>>

Next ==
  \/ file = <<>> /\ \E c \in Context, s \in Saved :
       \/ Write(c, s)
       \/ \E v \in {1, 2, 3, 5, 6, 7, 9, 103} : WriteOld(v, c, s)
  \/ reader = NoOne /\ origin # NoOne /\ origin.whole /\
       \/ \E n \in 1 .. Len(file) - 1 : Damage(SubSeq(file, 1, n))
       \/ Damage(Append(file, 0))
  \/ reader = NoOne /\ \E c \in Context : Read(c)

Spec == Init /\ [][Next]_vars
-----------------------------------------------------------------------------
(* What a reader holds is a state that can be saved, or nothing: no field   *)
(* of the header or of the contexts ever lands in the mean field.          *)
TypeOK ==
  /\ file \in Seq(Nat)
  /\ live \in Saved \cup {Unread}
  /\ reader = NoOne \/ reader.ctx \in Context

(* What a run computes, as far as a continuation must not change it: the   *)
(* equations its version stood for, and the inputs it is bound to.         *)
Equations(by, c, v) ==
  [cut      |-> IF v \in {6, 7} THEN "mode 2"
                ELSE IF c.cut = 0 THEN "uncut"
                ELSE IF by = "this" \/ v = 9 THEN "shifted" ELSE "unshifted",
   velocity |-> IF ~ Live(c) THEN "frozen"
                ELSE IF c.mode = "rotate_reference" THEN "rotated"
                ELSE IF by = "this" THEN "native" ELSE "whole H",
   hartree  |-> IF ~ c.hartree THEN "none"
                ELSE IF by = "this" THEN "mesh" ELSE "direct R",
   inputs   |-> <<c.band, c.head, c.input, c.setting>>]

Accepted == reader # NoOne /\ live # Unread

(* A job continues a file only if the file was written under the same      *)
(* equations and for the same inputs, whatever program version wrote it,   *)
(* and it then holds exactly the saved state.                              *)
ContinuesTheSameRun ==
  Accepted =>
    /\ Equations(origin.by, origin.ctx, origin.version)
         = Equations("this", reader.ctx, Version(reader.ctx))
    /\ live = origin.state

(* A file of this program is accepted by every job it is meant for, and no *)
(* proper prefix of a checkpoint, nor anything longer than one, by any.    *)
AcceptsWholeFiles ==
  /\ Accepted => origin.whole
  /\ reader # NoOne /\ origin.by = "this" /\ origin.whole
     /\ Equations("this", origin.ctx, Version(origin.ctx))
          = Equations("this", reader.ctx, Version(reader.ctx))
     => Accepted
=============================================================================
