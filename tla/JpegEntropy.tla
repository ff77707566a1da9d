----------------------------- MODULE JpegEntropy -----------------------------
(***************************************************************************)
(* The entropy coding of an image: its scans are coded MCU by MCU by the   *)
(* Huffman or the arithmetic encoder, sent, and decoded MCU by MCU from    *)
(* data that arrive in pieces and may be damaged.                          *)
(***************************************************************************)
EXTENDS JpegScan

CONSTANTS
    Jobs,       \* images, with the parameters of their compression
    Faults,     \* what may happen to the data of a single scan
    tbl_no,     \* the tables of each component
    Conditioning, \* of the arithmetic coder: the records L, U, K
    MAX_CORR_BITS, \* the correction bits an encoder can hold (1000)
    MaxEobRun   \* the EOBs it counts before it writes them (0x7FFF)

ASSUME CapacityAssumption ==
    /\ MAX_CORR_BITS \in Nat /\ MAX_CORR_BITS >= LimSe + 1
    /\ \E n \in 1..15 : MaxEobRun = 2^n - 1

VARIABLES
    job,        \* one of Jobs: image, script (its scans), restart_interval,
                \* arith (arith_code), optimize (optimize_coding), before (what
                \* was counted earlier), scaled (the size a component is
                \* decoded to), chunks (how many bytes may arrive at once)
    phase,      \* "gather", "encode", "send", "decode" or "done"
    scan, mcu,  \* the scan and the MCU in hand
    tables,     \* the Huffman tables of the compressor
    entropy,    \* the state of the encoder or decoder
    data,       \* the tables and the bytes of the scans coded so far
    coming,     \* the bytes of a scan that have not arrived yet
    fault,      \* what happened to the data
    coefs       \* the coefficients decoded so far

vars == <<job, phase, scan, mcu, tables, entropy, data, coming, fault, coefs>>

H == INSTANCE JpegHuffman
A == INSTANCE JpegArith

Scan == job.script[scan]
Components == DOMAIN job.image

-----------------------------------------------------------------------------
(* The coder in use (jinit_arith_encoder or jinit_huff_encoder).  Every    *)
(* scan is coded twice if its Huffman tables are optimized, as those of    *)
(* progressive images and of smaller blocks always are, but one that       *)
(* refines DC coefficients has no tables (jcmaster.c).                     *)

optimize_coding ==
    ~job.arith /\ (job.optimize \/ H!Progressive(job.script[1]) \/ LimSe < 63)
Gathers(s) == optimize_coding /\ (s.Ss # 0 \/ s.Ah = 0)

StartEncoder(s, gather, htbls) ==
    IF job.arith THEN A!StartEncoder ELSE H!StartEncoder(s, gather, htbls)

encode_mcu(blocks) ==
    IF job.arith THEN A!encode_mcu(entropy, Scan, blocks)
    ELSE H!encode_mcu(entropy, Scan, blocks)

finish_pass ==
    IF job.arith THEN A!finish_pass(entropy).out
    ELSE H!finish_pass_huff(entropy, Scan).out

StartDecoder(s, sent) ==
    IF job.arith THEN A!StartDecoder ELSE H!StartDecoder(s, sent)

decode_mcu(blocks) ==
    IF job.arith THEN A!decode_mcu(entropy, Scan, blocks)
    ELSE H!decode_mcu(entropy, Scan, blocks)

Failed == ~job.arith /\ phase \in {"gather", "encode"} /\ entropy.error

-----------------------------------------------------------------------------
(* Scan by scan, MCU by MCU.                                               *)

FirstPhase(s) == IF Gathers(s) THEN "gather" ELSE "encode"

Init ==
    /\ job \in Jobs
    /\ scan = 1
    /\ mcu = 1
    /\ phase = FirstPhase(Scan)
    /\ tables = <<>>
    /\ entropy = StartEncoder(Scan, Gathers(Scan), tables)
    /\ data = <<>>
    /\ coming = <<>>
    /\ fault = NoFault
    /\ coefs = [c \in Components |-> [n \in DOMAIN job.image[c] |-> ZeroBlock]]

EncodeMcu ==
    /\ phase \in {"gather", "encode"}
    /\ ~Failed
    /\ mcu <= McuCount(job.image, Scan)
    /\ entropy' = encode_mcu(McuBlocks(job.image, Scan, mcu))
    /\ mcu' = mcu + 1
    /\ UNCHANGED <<job, phase, scan, tables, data, coming, fault, coefs>>

FinishGather ==
    /\ phase = "gather"
    /\ ~Failed
    /\ mcu > McuCount(job.image, Scan)
    /\ LET made == H!finish_pass_gather(entropy, Scan, tables)
       IN  IF \E t \in H!TablesOf(Scan) : made[t].overflow
           THEN /\ entropy' = [entropy EXCEPT !.error = TRUE]
                /\ UNCHANGED <<phase, mcu, tables>>
           ELSE /\ tables' = made
                /\ entropy' = StartEncoder(Scan, FALSE, made)
                /\ phase' = "encode"
                /\ mcu' = 1
    /\ UNCHANGED <<job, scan, data, coming, fault, coefs>>

FinishPass ==
    /\ phase = "encode"
    /\ ~Failed
    /\ mcu > McuCount(job.image, Scan)
    /\ data' = Append(data, [tables |-> H!Sent(Scan, tables), bytes |-> finish_pass])
    /\ mcu' = 1
    /\ IF scan < Len(job.script)
       THEN LET next == job.script[scan + 1]
            IN  /\ scan' = scan + 1
                /\ phase' = FirstPhase(next)
                /\ entropy' = StartEncoder(next, Gathers(next), tables)
       ELSE /\ scan' = 1
            /\ phase' = "send"
            /\ UNCHANGED entropy
    /\ UNCHANGED <<job, tables, coming, fault, coefs>>

(* The reader begins scan s with the tables that were sent with it.        *)
StartScan(s, received) ==
    /\ coming' = received[s].bytes
    /\ entropy' = StartDecoder(job.script[s], received[s].tables)

(* Each scan is sent with the marker of what follows it, or with a fault   *)
(* in the only scan.                                                       *)
Arrive(f) ==
    /\ phase = "send"
    /\ fault' = f
    /\ data' = [s \in DOMAIN data |->
                   [data[s] EXCEPT !.bytes = Damaged(@, f) \o <<255, M_EOI>>]]
    /\ phase' = "decode"
    /\ StartScan(1, data')
    /\ UNCHANGED <<job, scan, mcu, tables, coefs>>

Send == Arrive(NoFault)

SendDamaged ==
    /\ phase = "send"
    /\ Len(job.script) = 1
    /\ LET segs == Segments(data[1].bytes)
       IN  \E f \in Faults :
               /\ f.at + f.count <= Len(segs)
               /\ f.kind = "cut" => f.count + 2 <= Len(segs[f.at])
               /\ Arrive(f)

(* The application calls again when the source has some more bytes; the    *)
(* arithmetic decoder wants them all (JERR_CANT_SUSPEND).                  *)
Deliver ==
    /\ phase = "decode"
    /\ entropy.suspended
    /\ coming # <<>>
    /\ \E n \in IF job.arith THEN {Len(coming)} ELSE job.chunks :
           LET k == IF n < Len(coming) THEN n ELSE Len(coming)
           IN  /\ entropy' = [entropy EXCEPT !.bytes = @ \o SubSeq(coming, 1, k),
                                             !.suspended = FALSE]
               /\ coming' = SubSeq(coming, k + 1, Len(coming))
    /\ UNCHANGED <<job, phase, scan, mcu, tables, data, fault, coefs>>

DecodeMcu ==
    /\ phase = "decode"
    /\ ~entropy.suspended
    /\ mcu <= McuCount(job.image, Scan)
    /\ \E r \in {decode_mcu(McuBlocks(coefs, Scan, mcu))} :
           /\ entropy' = r.d
           /\ coefs' = StoreMcu(coefs, Scan, mcu, r.blocks)
           /\ mcu' = IF r.d.suspended THEN mcu ELSE mcu + 1
    /\ UNCHANGED <<job, phase, scan, tables, data, coming, fault>>

NextScan ==
    /\ phase = "decode"
    /\ mcu > McuCount(job.image, Scan)
    /\ IF scan < Len(job.script)
       THEN scan' = scan + 1 /\ mcu' = 1 /\ StartScan(scan', data) /\ UNCHANGED phase
       ELSE phase' = "done" /\ UNCHANGED <<scan, mcu, coming, entropy>>
    /\ UNCHANGED <<job, tables, data, fault, coefs>>

Next ==
    \/ EncodeMcu
    \/ FinishGather
    \/ FinishPass
    \/ Send
    \/ SendDamaged
    \/ Deliver
    \/ DecodeMcu
    \/ NextScan

Spec == Init /\ [][Next]_vars

-----------------------------------------------------------------------------
(* Properties.                                                             *)

(* Every coefficient that is wanted of a block of component c is right,    *)
(* and nothing else is made up.                                            *)
Right(c, block, original) ==
    \A k \in 0..LimSe :
        \/ block[k] = original[k]
        \/ /\ ~job.arith /\ ~H!Progressive(Scan)
           /\ k >= H!coef_limit(c) /\ block[k] = 0

(* The decoder gets the image back: after each MCU of each scan every      *)
(* coefficient that is wanted is the one coded, to the precision of the    *)
(* scans so far, whatever the tables, statistics and restarts and however  *)
(* the bytes arrived.  Only the MCU in hand may hold what a suspended      *)
(* attempt has left, and doing it again makes it right ("Successive        *)
(* approximation AC refinement has to be more careful", jdhuff.c).         *)
RoundTrip ==
    phase \in {"decode", "done"} /\ fault = NoFault =>
        LET In(c, n, mcus) == \E i \in mcus : \E j \in OfComponent(Scan, c) :
                                  BlockNumber(Scan, i, j) = n
            told(c, n) == Told(SubSeq(job.script, 1, IF In(c, n, 1..(mcu - 1))
                                                     THEN scan ELSE scan - 1),
                               c, job.image[c][n])
        IN  \A c \in Components : \A n \in DOMAIN coefs[c] :
                In(c, n, {mcu}) \/ Right(c, coefs[c][n], told(c, n))

(* A fault spoils at most the segments that lost or changed their data:    *)
(* the restart markers put the decoder back on its feet and its MCUs in    *)
(* place, and a suspension in between changes nothing (process_restart,    *)
(* read_restart_marker, jpeg_resync_to_restart).                           *)
DamageConfined ==
    phase \in {"decode", "done"} /\ fault # NoFault =>
        \A i \in 1..(mcu - 1) : \A j \in DOMAIN Scan.membership :
            ((i - 1) \div job.restart_interval) + 1 \notin MayBeSpoilt(fault) =>
                Right(Scan.membership[j], McuBlocks(coefs, Scan, i)[j],
                      McuBlocks(job.image, Scan, i)[j])

(* The decoder never waits for bytes that do not come: with all of a scan  *)
(* delivered, whole or damaged, every MCU can be completed (a marker that  *)
(* ends the data is left for later, "no more bytes" are zeros).            *)
NeverStarves ==
    phase = "decode" /\ coming = <<>> => ~entropy.suspended

Coded ==
    IF phase = "encode"
    THEN Append([s \in DOMAIN data |-> data[s].bytes], entropy.out)
    ELSE [s \in DOMAIN data |-> data[s].bytes]

(* No coded byte looks like a marker: whatever carries ripple through the  *)
(* stacked FFs, an FF is followed by a stuffed 00, and the only markers    *)
(* are the restarts, in their order; and no arithmetic segment ends in a   *)
(* zero byte that is not stuffed ("we always produce the shortest possible *)
(* output stream", jcarith.c).                                             *)
SegmentsWellFormed ==
    phase \in {"gather", "encode", "send"} =>
        \A s \in DOMAIN Coded :
            LET out == Coded[s]
                m == Markers(out)
                ends == {m[k] - 1 : k \in DOMAIN m}
                        \cup (IF s \in DOMAIN data THEN {Len(out)} ELSE {})
            IN  /\ \A k \in DOMAIN m : out[m[k] + 1] = M_RST0 + ((k - 1) % 8)
                /\ \A i \in DOMAIN out :
                       /\ out[i] = 255 => i < Len(out) /\ out[i + 1] # 255
                       /\ job.arith /\ i \in ends /\ out[i] = 0 =>
                              i > 1 /\ out[i - 1] = 255

(* A carry always finds room: the buffered byte is never FF, where it      *)
(* could not go ("the 3 spacer bits in the C register guarantee that the   *)
(* new buffer byte can't be 0xFF here", jcarith.c), and before there is a  *)
(* byte to take it the interval stays below the next carry.                *)
CarryHasRoom ==
    job.arith /\ phase = "encode" =>
        entropy.buffer # 255 /\ A!HasRoom(entropy)

(* The Huffman encoder meets no error: the first pass has counted every    *)
(* symbol that the second one writes ("This process MUST agree with the    *)
(* code above"), so each has a code; an EOB run is written before its      *)
(* count is too large for a symbol ("safety check: shouldn't happen given  *)
(* limited correction-bit buffer"); and the correction bits of a whole     *)
(* further band find room beside those of the blocks before it.            *)
EncoderNeverFails ==
    ~job.arith /\ phase \in {"gather", "encode"} =>
        /\ ~entropy.error
        /\ Len(entropy.BE) + Scan.Se - Scan.Ss + 1 <= MAX_CORR_BITS
        /\ entropy.EOBRUN < MaxEobRun

(* sum over S of f, for the cost of a code.                                *)
Total(S, f(_)) == FoldSet(LAMBDA x, acc : f(x) + acc, 0, S)

(* The tables made of the counts of a first pass are codes: of at most 16  *)
(* bits, none a prefix of another, none all ones; a symbol counted more    *)
(* often has no longer code, though lengths above 16 are shortened without *)
(* regard to the symbols ("It's not real clear to me why we don't need to  *)
(* consider the codelength changes made above"); and for a few symbols no  *)
(* code that leaves one word free is shorter.                              *)
CodesAreGood ==
    phase = "gather" /\ mcu > McuCount(job.image, Scan) =>
        LET counts == H!emit_eobrun(entropy, tbl_no[Scan.membership[1]]).counts
            made == H!finish_pass_gather(entropy, Scan, tables)
        IN  \A t \in H!TablesOf(Scan) :
                LET tbl == H!jpeg_make_c_derived_tbl(t[1] = "dc", made[t])
                    code == tbl.code
                    symbols == DOMAIN code
                    longest == H!Greatest({Len(code[a]) : a \in symbols})
                    Cost(len(_)) == Total(symbols, LAMBDA a : counts[<<t, a>>] * len(a))
                IN  /\ ~made[t].overflow
                    /\ ~tbl.bad
                    /\ \A a \in symbols :
                           /\ Len(code[a]) \in 1..16
                           /\ 0 \in ToSet(code[a])
                    /\ \A a, b \in symbols :
                           /\ a # b => ~IsPrefix(code[a], code[b])
                           /\ counts[<<t, a>>] > counts[<<t, b>>] =>
                                  Len(code[a]) <= Len(code[b])
                    /\ Cardinality(symbols) <= 3 =>
                           \A len \in [symbols \cup {256} -> 1..4] :
                               Total(symbols \cup {256}, LAMBDA a : 2^(4 - len[a])) <= 16 =>
                                   Cost(LAMBDA a : Len(code[a])) + longest
                                       <= Cost(LAMBDA a : len[a]) + len[256]
=============================================================================
