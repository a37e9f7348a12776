------------------------------ MODULE Compress ------------------------------
(***************************************************************************)
(* Compression: a zstd request body is expanded before it is forwarded     *)
(* (handler/body.rs, compression.rs), and a response body is compressed    *)
(* while it streams (proxy/compress_body.rs).  The encoder keeps input     *)
(* back, and leaves for a blocking thread while that compresses a chunk    *)
(* over the threshold.                                                     *)
(***************************************************************************)
EXTENDS Naturals, Sequences, SequencesExt

CONSTANTS
    MaxBody,     \* max_request_body_bytes
    MaxChunks    \* bound: data frames of the backend's body

ASSUME CompressAssumption == {MaxBody, MaxChunks} \subseteq Nat \ {0}

VARIABLES
    request,   \* the request's body: its size once it is forwarded, or the status of a refusal
    expands,   \* what the client's body decompresses to
    headers,   \* the response: "none", "plain", "zstd" or "500"
    pulled,    \* data frames taken from the inner body
    held,      \* frames that the encoder has and has not emitted
    encoder,   \* where it is: "here" or "away"
    job,      \* the blocking task's chunk and what became of it
    mode,      \* CompressionPhase
    sent,      \* the data that the client was given
    marks      \* was it given "trailers", an "error"?

outVars == <<sent, marks>>
compressVars == <<request, expands, headers, pulled, held, encoder, job, mode, outVars>>

Status(s) == [status |-> s, size |-> 0]
NoTask == [chunk |-> 0, result |-> "none"]
bodyVars == <<request, expands>>

CompressTypeOK ==
    /\ headers \in {"none", "plain", "zstd", "500"} /\ pulled \in 0 .. MaxChunks
    /\ encoder \in {"here", "away"} /\ job.result \in {"none", "running", "empty", "output", "error"}
    /\ mode \in {"Streaming", "Offloading", "Flushing", "Done"}

CompressInit ==
    /\ request = Status("none") /\ expands \in 0 .. MaxBody + 2
    /\ headers = "none" /\ pulled = 0 /\ held = <<>>
    /\ encoder = "here" /\ job = NoTask
    /\ mode = "Streaming" /\ sent = <<>> /\ marks = {}

-----------------------------------------------------------------------------
(* The request.                                                            *)

\* decompress_bounded: reads one byte past the limit at most.
decompress_bounded(size) ==
    LET read == IF size <= MaxBody THEN size ELSE MaxBody + 1
    IN  IF read > MaxBody THEN Status("400") ELSE [status |-> "ok", size |-> read]

\* decompress_request: the compressed body must be within the cap as well, be
\* zstd, and come to its end; a blocking task may panic.
decompress_request ==
    /\ request.status = "none"
    /\ \/ request' = decompress_bounded(expands)
       \/ request' \in {Status(s) : s \in {"413", "400", "500"}}
    /\ UNCHANGED <<expands, headers, pulled, held, encoder, job, mode, outVars>>

-----------------------------------------------------------------------------
(* The response.                                                           *)

\* compress_response: left alone when its declared length is small, else
\* stamped once the encoder exists.
compress_response ==
    /\ request.status = "ok" /\ headers = "none"
    /\ headers' \in {"plain", "zstd", "500"}
    /\ UNCHANGED <<bodyVars, pulled, held, encoder, job, mode, outVars>>

\* The server polls the body for frames until it ends.  An error ends it, and so
\* do trailers, behind which HTTP has no place for data.
Polled == headers = "zstd" /\ mode # "Done" /\ marks = {}
Give(data) == sent' = sent \o data /\ UNCHANGED marks
Mark(m) == marks' = {m} /\ UNCHANGED sent

\* poll_streaming: an error of the inner body.
InnerError ==
    /\ Polled /\ mode = "Streaming"
    /\ Mark("error")
    /\ UNCHANGED <<bodyVars, headers, pulled, held, encoder, job, mode>>

\* compress_frame: what is not data is passed through, at once.
Trailers ==
    /\ Polled /\ mode = "Streaming"
    /\ Mark("trailers")
    /\ UNCHANGED <<bodyVars, headers, pulled, held, encoder, job, mode>>

\* A data frame.
MoreData == Polled /\ mode = "Streaming" /\ pulled < MaxChunks

\* compress_chunk: zstd keeps the input, gives all it has, or fails.
compress_inline ==
    /\ MoreData
    /\ pulled' = pulled + 1
    /\ \/ held' = Append(held, pulled') /\ UNCHANGED <<mode, outVars>>
       \/ Give(Append(held, pulled')) /\ held' = <<>> /\ UNCHANGED mode
       \/ mode' = "Done" /\ Mark("error") /\ UNCHANGED held
    /\ UNCHANGED <<bodyVars, headers, encoder, job>>

\* offload_chunk: the encoder moves into a blocking task.
offload_chunk ==
    /\ MoreData /\ encoder = "here"
    /\ pulled' = pulled + 1
    /\ encoder' = "away" /\ job' = [chunk |-> pulled', result |-> "running"]
    /\ mode' = "Offloading"
    /\ UNCHANGED <<bodyVars, headers, held, outVars>>

\* The blocking thread is done, has failed or has panicked.
compress_chunk_owned ==
    /\ job.result = "running"
    /\ \E r \in {"empty", "output", "error"} : job' = [job EXCEPT !.result = r]
    /\ UNCHANGED <<bodyVars, headers, pulled, held, encoder, mode, outVars>>

\* poll_offloading: the encoder is back, with what it gave.
poll_offloading ==
    /\ Polled /\ mode = "Offloading" /\ job.result \in {"empty", "output", "error"}
    /\ job' = NoTask
    /\ LET all == Append(held, job.chunk)
       IN  \/ job.result = "empty" /\ held' = all /\ encoder' = "here" /\ mode' = "Streaming" /\ UNCHANGED outVars
           \/ job.result = "output" /\ Give(all) /\ held' = <<>> /\ encoder' = "here" /\ mode' = "Streaming"
           \/ job.result = "error" /\ Mark("error") /\ mode' = "Done" /\ UNCHANGED <<held, encoder>>
    /\ UNCHANGED <<bodyVars, headers, pulled>>

\* poll_streaming: the inner body has ended.
InnerEnd ==
    /\ Polled /\ mode = "Streaming"
    /\ mode' = "Flushing"
    /\ UNCHANGED <<bodyVars, headers, pulled, held, encoder, job, outVars>>

\* poll_flushing: without its encoder it reports the loss.
poll_flushing ==
    /\ Polled /\ mode = "Flushing"
    /\ mode' = "Done"
    /\ \/ encoder = "here" /\ held' = <<>> /\ (IF held = <<>> THEN UNCHANGED outVars ELSE Give(held))
       \/ Mark("error") /\ UNCHANGED held
    /\ UNCHANGED <<bodyVars, headers, pulled, encoder, job>>

CompressNext ==
    \/ decompress_request \/ compress_response
    \/ InnerError \/ Trailers \/ compress_inline \/ offload_chunk
    \/ compress_chunk_owned \/ poll_offloading \/ InnerEnd \/ poll_flushing

-----------------------------------------------------------------------------
Upto(n) == [i \in 1 .. n |-> i]

\* The data that a client gets is the backend's, in its order and each frame once,
\* wherever the encoder is; a body that comes to its own end without an error
\* was given whole, and one that is ended before lacks what the encoder has
\* kept back and no more; the encoder is never missed; and a forwarded request
\* body is all that the client compressed.
CompressAccounted ==
    /\ IsPrefix(sent, Upto(pulled))
    /\ mode \in {"Streaming", "Flushing"} => sent \o held = Upto(pulled) /\ encoder = "here"
    /\ mode = "Done" /\ "error" \notin marks => sent = Upto(pulled)
    /\ request.status = "ok" => request.size = expands /\ expands <= MaxBody

\* compress_body.rs: failures are "surfaced as stream errors so the client never
\* sees a silent truncation".  A body that has ended without an error, by itself
\* or with trailers, was given whole.
NoSilentTruncation ==
    (mode = "Done" \/ "trailers" \in marks) /\ "error" \notin marks => sent = Upto(pulled)
=============================================================================
