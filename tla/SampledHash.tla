---------------------------- MODULE SampledHash ----------------------------
(***************************************************************************)
(* chunkHash on a file of the size that stat reported, while the file may   *)
(* grow and shrink: a small file is read to its end, of a large one three   *)
(* samples of fixed length.  A sample that ends early fails the hash.       *)
(***************************************************************************)
EXTENDS Integers

CONSTANTS
    Sample,   \* 0x5000
    Small,    \* 0xF000: files below are read as a whole
    Sizes     \* sizes of files

ASSUME SampleAssumption == Sample \in Nat \ {0} /\ Small = 3 * Sample /\ Sizes \subseteq Nat

VARIABLES
    size,     \* the size from stat
    length,   \* what the file is long
    still,    \* history: the file has not changed since its stat
    hash,     \* next: "open", "middle", "tail"; "done" or "failed"
    read,     \* offsets that went into the hash
    twice     \* history: offsets that went in more than once

hashVars == <<size, length, still, hash, read, twice>>

HashTypeOK ==
    /\ size \in Sizes /\ length \in Sizes /\ still \in BOOLEAN
    /\ hash \in {"open", "middle", "tail", "done", "failed"}
    /\ read \subseteq Nat /\ twice \subseteq Nat

HashInit ==
    /\ size \in Sizes /\ length = size /\ still = TRUE
    /\ hash = "open" /\ read = {} /\ twice = {}

Span(first, n) == first .. first + n - 1

\* Mutant: a sample may be short.
CopySampleShort(from, next) ==
    /\ hash' = next
    /\ read' = read \cup (Span(from, Sample) \cap Span(0, length))
    /\ twice' = twice \cup (read \cap Span(from, Sample))
    /\ UNCHANGED <<size, length, still>>

\* io.CopyN from an offset, of one sample.
CopySample(from, next) ==
    /\ IF from + Sample <= length
       THEN /\ hash' = next
            /\ read' = read \cup Span(from, Sample)
            /\ twice' = twice \cup (read \cap Span(from, Sample))
       ELSE hash' = "failed" /\ UNCHANGED <<read, twice>>
    /\ UNCHANGED <<size, length, still>>

CopyAll ==
    /\ hash = "open" /\ size < Small
    /\ hash' = "done" /\ read' = Span(0, length)
    /\ UNCHANGED <<size, length, still, twice>>

\* Mutant: files are sampled from two thirds of the limit on.
CopyHeadEarly == hash = "open" /\ size >= 2 * Sample /\ CopySample(0, "middle")

CopyHead == hash = "open" /\ size >= Small /\ CopySample(0, "middle")

CopyMiddle == hash = "middle" /\ CopySample(size \div 3, "tail")

CopyTail == hash = "tail" /\ CopySample(size - Sample, "done")

\* The file is written to while it is read.
Resized(n) ==
    /\ n # length /\ length' = n /\ still' = FALSE
    /\ UNCHANGED <<size, hash, read, twice>>

HashStep == CopyAll \/ CopyHead \/ CopyMiddle \/ CopyTail

HashNext == HashStep \/ \E n \in Sizes : Resized(n)

HashSpec == HashInit /\ [][HashNext]_hashVars

-----------------------------------------------------------------------------
\* No byte is read twice, and a file that keeps its size is hashed without an
\* error: the samples lie in the file and apart, from the least size on that is
\* sampled, where they cover all of it (README.en.md: below 0xF000 the full
\* file, else three samples of 0x5000 bytes).
SamplesApart == twice = {} /\ (still => hash # "failed")

\* A small file that keeps its size is hashed byte for byte, and no sampled
\* hash is returned for less than three samples, also if the file shrank under
\* the reader.
HashCovers ==
    hash = "done" =>
        /\ size < Small /\ still => read = Span(0, size)
        /\ size >= Small => read = Span(0, Sample) \cup Span(size \div 3, Sample)
                                                    \cup Span(size - Sample, Sample)
        /\ size = Small => read = Span(0, size)
=============================================================================
