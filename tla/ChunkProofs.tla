----------------------------- MODULE ChunkProofs ----------------------------
(* Proofs about what happens to one chunk: SampledHash names it, for every   *)
(* length of a sample and every size; UploadFile sends it, for every value   *)
(* of COS.Retries.                                                           *)
EXTENDS UploadFile, SampledHash, TLAPS

-----------------------------------------------------------------------------
(* The hash.                                                               *)

\* What has been read when each of the three samples is due.
HashInv ==
    /\ HashTypeOK
    /\ twice = {}
    /\ still => length = size /\ hash # "failed"
    /\ hash = "open" => read = {}
    /\ hash = "middle" => size >= Small /\ read = Span(0, Sample)
    /\ hash = "tail" =>
          /\ size >= Small
          /\ read = Span(0, Sample) \cup Span(size \div 3, Sample)
    /\ HashCovers

\* A third of a file that is sampled lies behind the first sample and before
\* the last.
LEMMA Third ==
  ASSUME NEW n \in Nat, n >= Small
  PROVE  /\ n \div 3 \in Nat /\ n - Sample \in Nat
         /\ Sample <= n \div 3 /\ n \div 3 + Sample <= n - Sample
  BY SampleAssumption

\* Spans in order have no offset in common.
LEMMA SpansApart ==
  ASSUME NEW i \in Nat, NEW j \in Nat, i + Sample <= j
  PROVE  Span(i, Sample) \cap Span(j, Sample) = {}
  BY SampleAssumption DEF Span

LEMMA HashInitInv == HashInit => HashInv
  BY SampleAssumption DEF HashInit, HashInv, HashTypeOK, HashCovers

LEMMA HashNextInv == HashInv /\ [HashNext]_hashVars => HashInv'
<1> SUFFICES ASSUME HashInv, [HashNext]_hashVars PROVE HashInv'
  OBVIOUS
<1> USE SampleAssumption
<1>0. size \in Nat /\ length \in Nat /\ Sample \in Nat \ {0} /\ Small \in Nat
  BY DEF HashInv, HashTypeOK
<1>1. CASE CopyAll
  BY <1>0, <1>1 DEF CopyAll, HashInv, HashTypeOK, HashCovers, Span
<1>2. CASE CopyHead
  <2>1. 0 + Sample <= length => Span(0, Sample) \subseteq Nat
    BY <1>0 DEF Span
  <2>2. still => 0 + Sample <= length
    BY <1>0, <1>2 DEF CopyHead, HashInv
  <2> QED BY <1>0, <1>2, <2>1, <2>2 DEF CopyHead, CopySample, HashInv, HashTypeOK, HashCovers
<1>3. CASE CopyMiddle
  <2>1. /\ size >= Small /\ read = Span(0, Sample)
        /\ size \div 3 \in Nat /\ Sample <= size \div 3 /\ size \div 3 + Sample <= size
    BY <1>0, <1>3, Third DEF CopyMiddle, HashInv
  <2>2. read \cap Span(size \div 3, Sample) = {}
    BY <1>0, <2>1, SpansApart
  <2>3. Span(size \div 3, Sample) \subseteq Nat
    BY <1>0, <2>1 DEF Span
  <2> QED BY <1>0, <1>3, <2>1, <2>2, <2>3
      DEF CopyMiddle, CopySample, HashInv, HashTypeOK, HashCovers
<1>4. CASE CopyTail
  <2>1. /\ size >= Small /\ read = Span(0, Sample) \cup Span(size \div 3, Sample)
        /\ size \div 3 \in Nat /\ size - Sample \in Nat
        /\ Sample <= size \div 3 /\ size \div 3 + Sample <= size - Sample
    BY <1>0, <1>4, Third DEF CopyTail, HashInv
  <2>2. /\ Span(0, Sample) \cap Span(size - Sample, Sample) = {}
        /\ Span(size \div 3, Sample) \cap Span(size - Sample, Sample) = {}
    BY <1>0, <2>1, SpansApart
  <2>3. Span(size - Sample, Sample) \subseteq Nat
    BY <1>0, <2>1 DEF Span
  <2>4. size = Small => read \cup Span(size - Sample, Sample) = Span(0, size)
    <3>1. ASSUME size = Small PROVE size \div 3 = Sample /\ size - Sample = 2 * Sample
      BY <1>0, <3>1
    <3> QED BY <1>0, <2>1, <3>1 DEF Span
  <2>5. size - Sample + Sample = size
    BY <1>0
  <2>6. CASE size <= length
    <3>1. /\ hash' = "done" /\ read' = read \cup Span(size - Sample, Sample)
          /\ twice' = twice \cup (read \cap Span(size - Sample, Sample))
          /\ UNCHANGED <<size, length, still>>
      BY <1>4, <2>5, <2>6 DEF CopyTail, CopySample
    <3>2. twice' = {}
      BY <2>1, <2>2, <3>1 DEF HashInv
    <3> QED BY <1>0, <2>1, <2>3, <2>4, <3>1, <3>2 DEF HashInv, HashTypeOK, HashCovers
  <2>7. CASE ~(size <= length)
    <3>1. hash' = "failed" /\ UNCHANGED <<read, twice, size, length, still>>
      BY <1>4, <2>5, <2>7 DEF CopyTail, CopySample
    <3>2. ~still
      BY <1>0, <2>7 DEF HashInv
    <3> QED BY <3>1, <3>2 DEF HashInv, HashTypeOK, HashCovers
  <2> QED BY <2>6, <2>7
<1>5. ASSUME NEW n \in Sizes, Resized(n) PROVE HashInv'
  BY <1>0, <1>5 DEF Resized, HashInv, HashTypeOK, HashCovers
<1>6. CASE UNCHANGED hashVars
  BY <1>6 DEF hashVars, HashInv, HashTypeOK, HashCovers
<1> QED BY <1>1, <1>2, <1>3, <1>4, <1>5, <1>6 DEF HashNext, HashStep

\* Each sample is taken where the last one has ended or later, and within the
\* size that stat reported.
THEOREM HashInductive == HashSpec => []HashInv
  BY HashInitInv, HashNextInv, PTL DEF HashSpec

\* No byte is hashed twice, and a file that keeps its size hashes without error.
THEOREM SamplesAlwaysApart == HashSpec => []SamplesApart
<1>1. HashInv => SamplesApart
  BY DEF HashInv, SamplesApart
<1> QED BY <1>1, HashInductive, PTL

\* A hash that is returned is made of the whole small file, or of three whole
\* samples.
THEOREM HashAlwaysCovers == HashSpec => []HashCovers
<1>1. HashInv => HashCovers
  BY DEF HashInv
<1> QED BY <1>1, HashInductive, PTL

-----------------------------------------------------------------------------
(* The upload.                                                             *)

\* Where the counter stands when a turn begins and when the call returns.
UploadInv ==
    /\ UploadTypeOK /\ NilMeansStored /\ GivesUpRightly
    /\ call = "ready" => turn = 0 /\ answer = "none"
    /\ call = "sending" => turn <= retries

LEMMA UploadInitInv == UploadInit => UploadInv
<1> SUFFICES ASSUME UploadInit PROVE UploadInv
  OBVIOUS
<1>1. stored \in BOOLEAN
  BY Zenon DEF UploadInit
<1> QED BY <1>1 DEF UploadInit, UploadInv, UploadTypeOK, NilMeansStored, GivesUpRightly

LEMMA UploadNextInv == UploadInv /\ [UploadStep]_uploadVars => UploadInv'
<1> SUFFICES ASSUME UploadInv, [UploadStep]_uploadVars PROVE UploadInv'
  OBVIOUS
<1> USE RetryAssumption DEF UploadInv, UploadTypeOK, NilMeansStored, GivesUpRightly
<1>1. CASE BeginUpload
  BY <1>1 DEF BeginUpload, More
<1>2. CASE Accepted
  BY <1>2 DEF Accepted
<1>3. CASE Unavailable
  BY <1>3 DEF Unavailable, Again, More
<1>4. CASE Lost
  <2>1. stored' \in BOOLEAN
    BY <1>4, Zenon DEF Lost
  <2> QED BY <1>4, <2>1 DEF Lost, Again, More
<1>5. CASE Refused
  BY <1>5 DEF Refused
<1>6. CASE UNCHANGED uploadVars
  BY <1>6 DEF uploadVars
<1> QED BY <1>1, <1>2, <1>3, <1>4, <1>5, <1>6 DEF UploadStep

\* The variables of the loop keep their types, NilMeansStored and GivesUpRightly
\* among what holds throughout.
THEOREM UploadInductive == UploadSpec => []UploadInv
  BY UploadInitInv, UploadNextInv, PTL DEF UploadSpec

\* A call that answers nil has stored the file, if COS.Retries is not negative.
THEOREM NilAlwaysStored == UploadSpec => []NilMeansStored
<1>1. UploadInv => NilMeansStored
  BY DEF UploadInv
<1> QED BY <1>1, UploadInductive, PTL

\* A call gives up at once on a refusal, and else after Retries repetitions.
THEOREM AlwaysGivesUpRightly == UploadSpec => []GivesUpRightly
<1>1. UploadInv => GivesUpRightly
  BY DEF UploadInv
<1> QED BY <1>1, UploadInductive, PTL
=============================================================================
