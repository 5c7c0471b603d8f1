------------------------------ MODULE DescDump ------------------------------
(***************************************************************************)
(* desc-dump.c: the dump of one descriptor by the table of its fields.     *)
(*                                                                         *)
(* A buffer is a sequence of bytes, buf[1] the byte at offset 0; buf_len   *)
(* is its length.  What a dump is abstracted to is how many bytes of it    *)
(* fields are shown for, and how it ends -                                 *)
(*   "whole"         every byte belongs to a field,                        *)
(*   "insufficient"  an entry does not fit ("Length insufficient for       *)
(*                   descriptor type"): the bytes from offset are raw,     *)
(*   "junk"          bytes are left over ("Junk at end of descriptor").    *)
(***************************************************************************)
EXTENDS DescTables, SequencesExt, Integers


\* At most eight bytes, least significant first.
get_n_bytes_as_ull(buf, offset, bytes) ==
  LET n == IF bytes > 8 THEN 8 ELSE bytes
      value[i \in 0 .. n] ==
        IF i = n THEN 0 ELSE buf[offset + i + 1] + 256 * value[i + 1]
  IN  value[0]

\* The place of the named field in its table, 0 if it has none.
Place(desc, name) == SelectInSeq(desc, LAMBDA f : f.field = name)

ValueAt(buf, offset, bytes) ==
  IF offset + bytes <= Len(buf) THEN get_n_bytes_as_ull(buf, offset, bytes)
                                ELSE 0

\* The value of the field at place i, which starts at offset[i].
ValueOf(buf, desc, offset, i) ==
  IF i = 0 THEN 0 ELSE ValueAt(buf, offset[i], desc[i].size)

\* The size of an entry, the fields being at the given offsets.
EntrySize(buf, desc, offset, f) ==
  IF f.size_field = None THEN f.size
  ELSE ValueOf(buf, desc, offset, Place(desc, f.size_field))

\* The offsets get_value_from_field takes the fields to be at: every field
\* before one counts as a single entry, arrays too.
SearchOffsets(buf, desc) ==
  LET offset[i \in 1 .. Len(desc)] ==
        IF i = 1 THEN 0
        ELSE offset[i - 1] + EntrySize(buf, desc, offset, desc[i - 1])
  IN  offset

get_value_from_field(buf, desc, name) ==
  ValueOf(buf, desc, SearchOffsets(buf, desc), Place(desc, name))

get_entry_size(buf, desc, f) ==
  EntrySize(buf, desc, SearchOffsets(buf, desc), f)

\* Bits take up whole bytes.
Bytes(f, entries) == IF f.bits THEN (entries + 7) \div 8 ELSE entries

\* The entries of an array whose count other fields hold.
StatedEntries(buf, desc, f) ==
  Bytes(f, get_value_from_field(buf, desc, f.length_field1) *
             IF f.length_field2 = None THEN 1
             ELSE get_value_from_field(buf, desc, f.length_field2))

\* As many entries as the other fields leave room for.
EntriesIn(left, size) == IF left < 0 \/ size = 0 THEN 0 ELSE left \div size

Bug_InferredEntries(buf, desc, f) ==
  EntriesIn(Len(buf), get_entry_size(buf, desc, f))

InferredEntries(buf, desc, f) ==
  LET taken[i \in 0 .. Len(desc)] ==
        IF i = 0 THEN 0
        ELSE taken[i - 1] +
               IF desc[i] = f THEN 0
               ELSE get_entry_size(buf, desc, desc[i]) *
                      IF desc[i].array THEN StatedEntries(buf, desc, desc[i])
                                       ELSE 1
  IN  EntriesIn(Len(buf) - taken[Len(desc)], get_entry_size(buf, desc, f))

get_array_entry_count(buf, desc, f) ==
  IF f.length_field1 # None THEN StatedEntries(buf, desc, f)
                            ELSE InferredEntries(buf, desc, f)

-----------------------------------------------------------------------------
(* The dump so far: the offset reached, and how it ended.                 *)

Begin == [offset |-> 0, end |-> "running"]

\* The entries of a field that fit into the buffer; the first one that does
\* not ends the dump.
DumpEntries(buf, d, size, entries) ==
  LET room == IF size = 0 THEN entries ELSE (Len(buf) - d.offset) \div size
  IN  IF entries <= room
      THEN [d EXCEPT !.offset = @ + entries * size]
      ELSE [offset |-> d.offset + room * size, end |-> "insufficient"]

\* A field of the table itself.
DumpField(buf, desc, d, f) ==
  DumpEntries(buf, d, get_entry_size(buf, desc, f),
              IF f.array THEN get_array_entry_count(buf, desc, f) ELSE 1)

Finish(buf, d) ==
  IF d.end # "running" THEN d
  ELSE [d EXCEPT !.end = IF d.offset < Len(buf) THEN "junk" ELSE "whole"]

\* A table without extension, its fields one after the other.
PlainDump(buf, desc) ==
  LET upto[i \in 0 .. Len(desc)] ==
        IF i = 0 THEN Begin
        ELSE LET d == upto[i - 1]
             IN  IF d.end = "running" THEN DumpField(buf, desc, d, desc[i])
                                      ELSE d
  IN  Finish(buf, upto[Len(desc)])

\* The extension: the rest of the buffer is a descriptor of its own, whose
\* table the value of another field selects.
ExtensionTable(f, type) ==
  IF type \in DOMAIN f.extension THEN f.extension[type] ELSE desc_undefined

DumpExtension(buf, desc, d, f) ==
  IF d.offset + f.size > Len(buf) THEN [d EXCEPT !.end = "insufficient"]
  ELSE [PlainDump(SubSeq(buf, d.offset + 1, Len(buf)),
                  ExtensionTable(f, get_value_from_field(buf, desc,
                                                         f.type_field)))
          EXCEPT !.offset = @ + d.offset]

desc_dump(buf, desc) ==
  LET upto[i \in 0 .. Len(desc)] ==
        IF i = 0 THEN Begin
        ELSE LET d == upto[i - 1]
             IN  IF d.end # "running" THEN d
                 ELSE IF desc[i].type_field = None
                      THEN DumpField(buf, desc, d, desc[i])
                      ELSE DumpExtension(buf, desc, d, desc[i])
  IN  Finish(buf, upto[Len(desc)])

-----------------------------------------------------------------------------
(* What the dump relies on of the tables: a field that gives a size, a     *)
(* count or a type stands before the field it is for and is no array; at   *)
(* most one array is inferred; counts and sizes are single bytes, so that  *)
(* no product of two leaves 32 bits; an extension comes last and its own   *)
(* tables have none; every field has a size.                               *)

Referred(f) ==
  {f.size_field, f.length_field1, f.length_field2, f.type_field} \ {None}

SoundTable(desc) ==
  /\ Len(desc) \in Nat /\ DOMAIN desc = 1 .. Len(desc)
  /\ \A i \in DOMAIN desc :
       /\ \A name \in Referred(desc[i]) :
            LET j == Place(desc, name)
            IN  /\ j \in 1 .. i - 1
                /\ ~ desc[j].array /\ desc[j].size_field = None
                /\ desc[j].size = IF name = desc[i].type_field THEN 2 ELSE 1
       /\ desc[i].size \in Nat
       /\ desc[i].size_field = None => desc[i].size > 0
       /\ desc[i].type_field # None => i = Len(desc)
  /\ \A i, j \in DOMAIN desc :
       /\ desc[i].field = desc[j].field => i = j
       /\ /\ desc[i].array /\ desc[i].length_field1 = None
          /\ desc[j].array /\ desc[j].length_field1 = None
          => i = j

\* No size, count or type stands behind an array or a field of variable size.
FixedPrefix(desc) ==
  \A i \in DOMAIN desc : \A name \in Referred(desc[i]) :
    \A k \in 1 .. Place(desc, name) - 1 :
      ~ desc[k].array /\ desc[k].size_field = None

\* Of a table, and of those its extension may go on with: there the counts
\* stand at fixed offsets.  The entry a table goes on at is one of one byte,
\* and no array of such a table is inferred.
SoundTables(desc) ==
  /\ SoundTable(desc)
  /\ \A i \in DOMAIN desc : \A type \in DOMAIN desc[i].extension :
       /\ SoundTable(desc[i].extension[type])
       /\ FixedPrefix(desc[i].extension[type])
  /\ \A i, k \in DOMAIN desc :
       desc[i].type_field # None =>
         desc[i].size = 1 /\ (desc[k].array => desc[k].length_field1 # None)

-----------------------------------------------------------------------------
(* The reference: the descriptors a table means.                           *)

\* Where the fields of a table really lie, its inferred array having n
\* entries: an array takes up all of its entries.
TrueOffsets(buf, desc, n) ==
  LET at[i \in 1 .. Len(desc) + 1] ==
        IF i = 1 THEN 0
        ELSE LET f       == desc[i - 1]
                 of(name) == LET j == Place(desc, name)
                             IN  ValueAt(buf, at[j], desc[j].size)
                 rows    == of(f.length_field1)
                 entries == IF f.length_field2 = None THEN rows
                            ELSE rows * of(f.length_field2)
                 size    == IF f.size_field = None THEN f.size
                            ELSE of(f.size_field)
             IN  at[i - 1] + size * IF ~ f.array THEN 1
                                    ELSE IF f.length_field1 = None THEN n
                                         ELSE IF f.bits
                                              THEN (entries + 7) \div 8
                                              ELSE entries
  IN  at

Fills(buf, desc) ==
  \E n \in 0 .. Len(buf) :
    TrueOffsets(buf, desc, n)[Len(desc) + 1] = Len(buf)

\* A well-formed descriptor is filled by its fields.  One with an extension
\* is of a type the extension has a table for, and the rest fills that.
WellFormed(buf, desc) ==
  LET last     == Len(desc)
      offsets  == TrueOffsets(buf, desc, 0)
      tables   == desc[last].extension
      selector == Place(desc, desc[last].type_field)
      type     == ValueAt(buf, offsets[selector], 2)
  IN  IF last # 0 /\ desc[last].type_field # None
      THEN /\ offsets[last] < Len(buf) /\ type \in DOMAIN tables
           /\ Fills(SubSeq(buf, offsets[last] + 1, Len(buf)), tables[type])
      ELSE Fills(buf, desc)
=============================================================================
