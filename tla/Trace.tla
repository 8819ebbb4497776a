-------------------------------- MODULE Trace --------------------------------
(***************************************************************************)
(* The trace module: a line for each request that arrives goes to a buffer *)
(* which is written to the trace file when the next line does not fit, and *)
(* at the end.  agios_trace_mutex makes each operation one step.  A line   *)
(* is the request it tells of.  Writing to the file succeeds: when it does *)
(* not, the code prints a message and forgets the buffer (trace.c:33).     *)
(***************************************************************************)
EXTENDS Integers, SequencesExt

CONSTANTS
  LineSize,    \* the characters of the line of each request
  MaxBuffer,   \* config_agios_max_trace_buffer_size
  Garbage      \* what malloc may have left in the buffer

(* aux_buf holds 300 characters, the buffer a multiple of 1024.             *)
Traceable == DOMAIN LineSize
ASSUME TraceAssumption ==
  /\ LineSize \in [Traceable -> Nat \ {0}] /\ MaxBuffer \in Nat \ {0}
  /\ \A r \in Traceable : LineSize[r] < MaxBuffer
  /\ Garbage \notin Traceable

VARIABLES
  buffer,      \* the string in agios_tracefile_buffer, line by line
  bufferSize,  \* agios_tracefile_buffer_size
  file,        \* the lines in the trace file
  closed,      \* has close_agios_trace been called?
  logged       \* history: the requests in the order of their trace calls

traceVars == <<buffer, bufferSize, file, closed, logged>>

TraceTypeOK ==
  /\ buffer \in Seq(Traceable \cup {Garbage}) /\ bufferSize \in 0..(MaxBuffer - 1)
  /\ file \in Seq(Traceable \cup {Garbage})
  /\ closed \in BOOLEAN /\ logged \in Seq(Traceable)

(* init_trace_module does not clear what malloc returns.                    *)
TraceInit ==
  /\ buffer \in {<<>>, <<Garbage>>} /\ bufferSize = 0
  /\ file = <<>> /\ closed = FALSE /\ logged = <<>>

(* Mutant: the line that did not fit is written with the buffer and stays.  *)
TraceTwice(r) ==
  IF bufferSize + LineSize[r] >= MaxBuffer
  THEN /\ file' = Append(file \o buffer, r)
       /\ buffer' = <<r>> /\ bufferSize' = LineSize[r]
  ELSE /\ buffer' = IF bufferSize = 0 THEN <<r>> ELSE Append(buffer, r)
       /\ bufferSize' = bufferSize + LineSize[r]
       /\ UNCHANGED file

(* agios_trace_write_to_buffer: the flush writes the buffer up to its NUL   *)
(* and leaves it there; a line written at place 0 overwrites it.            *)
WriteToBuffer(r) ==
  IF bufferSize + LineSize[r] >= MaxBuffer
  THEN /\ file' = file \o buffer
       /\ buffer' = <<r>> /\ bufferSize' = LineSize[r]
  ELSE /\ buffer' = IF bufferSize = 0 THEN <<r>> ELSE Append(buffer, r)
       /\ bufferSize' = bufferSize + LineSize[r]
       /\ UNCHANGED file

agios_trace_add_request(r) ==
  /\ WriteToBuffer(r)
  /\ logged' = Append(logged, r)
  /\ UNCHANGED closed

(* close_agios_trace writes the buffer whatever is in it.                   *)
close_agios_trace ==
  /\ file' = file \o buffer
  /\ bufferSize' = 0 /\ closed' = TRUE
  /\ UNCHANGED <<buffer, logged>>

-----------------------------------------------------------------------------
(* Trace files hold "information about all requests arrivals": what was     *)
(* flushed and what is still in the buffer is what was traced, in order and *)
(* once, and when the library has ended all of it is in the file (but for   *)
(* garbage when nothing was traced at all).                                 *)
TraceComplete ==
  LET pending == IF bufferSize = 0 THEN <<>> ELSE buffer
  IN logged # <<>> => file \o pending = logged
=============================================================================
