------------------------------- MODULE ElfShape -------------------------------
(***************************************************************************)
(* The checks of inert_artifact.py on the bytes of a launcher that already *)
(* has the expected digest: _validate_elf64_static_pie, which reads the    *)
(* file header, the program headers and the dynamic table, and             *)
(* _require_embedded_seccomp_identity, which looks for two markers.        *)
(*                                                                         *)
(* An image is a record of what these checks read.  The fixed fields of    *)
(* the file header are one Boolean; offsets, addresses and sizes are small *)
(* numbers of units of 16 bytes, the size of a dynamic entry, with         *)
(* AddressMax in the place of UINT64_MAX.                                  *)
(***************************************************************************)
EXTENDS Integers, Sequences, FiniteSets

CONSTANTS
    FileSize,       \* len(content)
    TableEnd,       \* program_table_end
    AddressMax,     \* UINT64_MAX
    MaxHeaders      \* 128 program headers

ASSUME ElfAssumption ==
    /\ FileSize \in Nat /\ TableEnd \in Nat /\ AddressMax \in Nat
    /\ MaxHeaders \in Nat

\* What struct.unpack_from makes of a program header and of the rest.
HeaderFields ==
    [type : {"NULL", "LOAD", "DYNAMIC", "INTERP", "STACK", "RELRO", "OTHER"},
     flags : SUBSET {"R", "W", "X", "other"},
     off : Nat, addr : Nat, fileSize : Nat, memSize : Nat, align : Nat]

ImageFields(image) ==
    /\ image.headers \in Seq(HeaderFields)
    /\ image.entry \in Nat
    /\ image.markers \in [id : SUBSET Nat, digest : SUBSET Nat]

FileEnd(s) == s.off + s.fileSize
VirtualEnd(s) == s.addr + s.memSize

Aligned(s) ==
    s.align \notin {0, 1} =>
        /\ \E k \in 1 .. s.align : s.align = 2 ^ k
        /\ s.off % s.align = s.addr % s.align

\* Checked of every header but PT_NULL.
WellFormed(s) ==
    s.type # "NULL" =>
        /\ s.flags \subseteq {"R", "W", "X"}
        /\ s.fileSize <= s.memSize
        /\ s.off <= FileSize /\ s.fileSize <= FileSize - s.off
        /\ s.memSize <= AddressMax - s.addr
        /\ Aligned(s)

\* The places of the headers of a type.
OfType(image, type) ==
    {i \in DOMAIN image.headers : image.headers[i].type = type}

\* load_segments, in the order of the headers.
Loads(image) == OfType(image, "LOAD")

\* Load i is load_segments[-1] when load j is read.
Precedes(image, i, j) ==
    /\ i \in Loads(image) /\ j \in Loads(image) /\ i < j
    /\ \A k \in Loads(image) : ~(i < k /\ k < j)

LoadAllowed(s) ==
    /\ "R" \in s.flags /\ ~({"W", "X"} \subseteq s.flags)
    /\ s.fileSize # 0 /\ s.memSize # 0

\* A load compared with its predecessor in the file only.
FollowsInFile(s, previous) == s.off >= FileEnd(previous)

\* Each load is compared with the load before it.
Follows(s, previous) ==
    /\ s.off >= FileEnd(previous)
    /\ s.addr >= VirtualEnd(previous)

DynamicAllowed(s) ==
    s.flags = {"R", "W"} /\ s.fileSize # 0 /\ s.fileSize = s.memSize

RelroAllowed(s) ==
    s.flags = {"R"} /\ s.fileSize # 0 /\ s.fileSize = s.memSize

\* is_exactly_mapped.
ExactlyMapped(s, image) ==
    \E i \in Loads(image) :
        LET load == image.headers[i]
        IN  /\ load.off <= s.off /\ FileEnd(s) <= FileEnd(load)
            /\ load.addr <= s.addr /\ VirtualEnd(s) <= VirtualEnd(load)
            /\ s.off - load.off = s.addr - load.addr
            /\ s.flags \subseteq load.flags

\* The loop over the dynamic table stops at the first DT_NULL.  A tag that is
\* DT_FLAGS or DT_FLAGS_1 with the wanted bits is "now" or "pie_now".
DynamicTableAllowed(tags) ==
    \E n \in DOMAIN tags :
        /\ tags[n] = "null"
        /\ \A i \in 1 .. n - 1 :
              tags[i] \notin {"null", "needed", "rpath", "runpath",
                              "flags_other", "flags_1_other"}
        /\ \A wanted \in {"now", "pie_now"} :
              Cardinality({i \in 1 .. n - 1 : tags[i] = wanted}) = 1

\* _validate_elf64_static_pie.
StaticPie(image) ==
    LET header == image.headers
        loads == Loads(image)
    IN  /\ image.fixedFields /\ image.entry # 0
        /\ Len(header) \in 1 .. MaxHeaders /\ TableEnd <= FileSize
        /\ \A i \in DOMAIN header :
              WellFormed(header[i]) /\ header[i].type # "INTERP"
        /\ \A i \in loads : LoadAllowed(header[i])
        /\ \A i, j \in loads :
              Precedes(image, i, j) => Follows(header[j], header[i])
        /\ \E i \in DOMAIN header :
              /\ OfType(image, "DYNAMIC") = {i} /\ DynamicAllowed(header[i])
              /\ ExactlyMapped(header[i], image)
        /\ \E i \in DOMAIN header :
              OfType(image, "STACK") = {i} /\ header[i].flags = {"R", "W"}
        /\ \E i \in DOMAIN header :
              /\ OfType(image, "RELRO") = {i} /\ RelroAllowed(header[i])
              /\ ExactlyMapped(header[i], image)
        /\ \E i \in loads :
              header[i].off = 0 /\ FileEnd(header[i]) >= TableEnd
        /\ \E i \in loads :
              /\ "X" \in header[i].flags
              /\ header[i].addr <= image.entry
              /\ image.entry < header[i].addr + header[i].fileSize
        /\ DynamicTableAllowed(image.dynamicTable)

\* _require_embedded_seccomp_identity: each marker occurs once, and lies in
\* the file bytes of one load.  A marker is as long as one unit of offsets.
CarriesSeccompIdentity(image) ==
    \A marker \in {"id", "digest"} :
        /\ Cardinality(image.markers[marker]) = 1
        /\ \A m \in image.markers[marker] :
              \E i \in Loads(image) :
                  /\ image.headers[i].off <= m
                  /\ m + 1 <= FileEnd(image.headers[i])

ArtifactAccepted(image) == StaticPie(image) /\ CarriesSeccompIdentity(image)

(***************************************************************************)
(* What a loader may rely on, stated without the order of the headers.     *)
(***************************************************************************)
MapsAddress(s, a) == s.addr <= a /\ a < VirtualEnd(s)
MapsOffset(s, o) == s.off <= o /\ o < FileEnd(s)

\* No byte of the file or of memory belongs to two segments, the entry point
\* is in one that cannot be written, and each marker is in one that is mapped.
LoadsSafely(image) ==
    LET seg(i) == image.headers[i]
    IN  /\ \A a \in 0 .. AddressMax :
              Cardinality({i \in Loads(image) : MapsAddress(seg(i), a)}) <= 1
        /\ \A o \in 0 .. FileSize :
              Cardinality({i \in Loads(image) : MapsOffset(seg(i), o)}) <= 1
        /\ \A i \in Loads(image) :
              MapsAddress(seg(i), image.entry) =>
                  "X" \in seg(i).flags /\ "W" \notin seg(i).flags
        /\ \E i \in Loads(image) : MapsAddress(seg(i), image.entry)
        /\ \A m \in image.markers.id \cup image.markers.digest :
              \E i \in Loads(image) : MapsOffset(seg(i), m)
===============================================================================
