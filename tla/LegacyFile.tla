----------------------------- MODULE LegacyFile -----------------------------
(***************************************************************************)
(* legacy/src/v3.cc: one import of a historical file.  The decoder          *)
(* (LegacyImport) draws its plaintext through the reader of the envelope    *)
(* (LegacyEnvelope), which decrypts and decompresses no more than a read    *)
(* asks for.  Hence a document is refused for a fault of its own before the *)
(* rest of a damaged envelope has been looked at, and nothing is converted  *)
(* before the reader's Finish.                                              *)
(***************************************************************************)
EXTENDS LegacyEnvelope, LegacyImport

CONSTANTS
    Plainest,  \* the envelope every document is put in
    Wrapped    \* the documents that are put in every envelope

ASSUME WrappingAssumption ==
    Plainest \in Envelopes /\ Plainest.damage = "none" /\ Wrapped \subseteq Documents

FileInit ==
    /\ \/ doc \in Documents /\ env = Plainest
       \/ doc \in Wrapped /\ env \in Envelopes
    /\ NewReader /\ NewImport

importVars == <<doc, pc, status, trouble, sections, entries, model, convertVars>>

\* Before the model is decoded the reader serves the decoder's reads, then
\* Finish.
Read ==
    /\ pc \in {"version", "decode"}
    /\ Initialize \/ ReadExact \/ Stages
    /\ UNCHANGED importVars

FinishReading ==
    /\ pc = "count"
    /\ Finish \/ Stages \/ FinishFrame \/ FinishEnvelope
    /\ UNCHANGED importVars

\* Between two reads; the model is there when the last one has been made.
DecodeRead ==
    /\ reader = "decoder"
    /\ Decode \/ (ask = 0 /\ DecodeModel)
    /\ UNCHANGED envelopeVars

ReaderStatus ==
    CASE env.damage \in {"source limit", "summary limit"} -> "ResourceExhausted"
      [] env.damage \in {"raw", "not v3"}                 -> "InvalidArgument"
      [] env.damage = "version"                           -> "Unimplemented"
      [] OTHER                                            -> "DataLoss"

\* The import ends with the status of its reader.
ReadFails ==
    /\ pc \in {"version", "decode", "count"} /\ reader = "failed"
    /\ Fail(ReaderStatus)
    /\ UNCHANGED <<doc, sections, entries, model, convertVars, envelopeVars>>

Outcomes == {"success", "failure", "exception", "refused"}

\* Where memory is allocated: for the reader, the model, the window of zstd
\* and the result.
NoMemory ==
    /\ reader \in {"new", "decoder", "decompress", "finish", "accepted"}
    /\ OutOfMemory

FileNext ==
    \/ Read \/ FinishReading \/ ReadFails
    \/ DecodeRead
    \/ reader = "accepted" /\ Convert /\ UNCHANGED envelopeVars
    \/ (NoMemory \/ Report) /\ UNCHANGED envelopeVars
    \/ pc \in Outcomes /\ UNCHANGED <<importVars, envelopeVars>>

\* The import runs on its caller's thread and waits for nobody: that no state
\* but an outcome is without a step is checked as the absence of deadlock.
FileSpec == FileInit /\ [][FileNext]_<<importVars, envelopeVars>>

-----------------------------------------------------------------------------
(* Properties. *)

\* All layers agree on what can be imported.  Of a file whose envelope is
\* sound, the decoder and the projector refuse exactly what is not
\* representable, with the code for the reason - an unknown version, a damaged
\* source, a limit, a model the target has no form for - and what they build
\* passes the checks ResultOwner repeats before it writes the descriptor;
\* except a playable sound with an empty name, and names longer together than
\* the descriptor, which the decoder lets through and EncodeDescriptor refuses,
\* so that Java sees an exception and no result.
\* That a sound envelope is accepted whichever way its reads, the cipher's
\* chunks and the blocks of the frame overlap is part of it: the last unit of
\* input zstd holds back while output waits must not be taken for trailing
\* data, nor its absence for a truncated frame.
\* A damaged envelope never gives a model, however much of its document was
\* decoded before the damage showed, and is reported as what it is unless the
\* document was refused first.
RightOutcome ==
    /\ pc = "failure" =>
           \/ ReasonHolds(FailureCode(status))
           \/ ~SoundEnvelope /\ status = ReaderStatus
    /\ pc = "refused" => SoundEnvelope /\ Representable(doc) /\ (NamelessSound(doc) \/ LongNames(doc))
    /\ pc \in {"result", "success"} =>
           SoundEnvelope /\ Representable(doc) /\ ~NamelessSound(doc) /\ ~LongNames(doc)
=============================================================================
