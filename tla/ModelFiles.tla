----------------------------- MODULE ModelFiles -----------------------------
(***************************************************************************)
(* LoadConfig (src/inference/config.cc): the files of a model, read by     *)
(* ParseFile (src/json/parser.cc) and Safetensors::LoadFile.  The document *)
(* of module JsonBody is the contents of one of them.                      *)
(***************************************************************************)
EXTENDS JsonBody, Safetensors

VARIABLES
  dir,         \* the directory of the model
  loaded       \* what LoadConfig ends with

modelVars == <<vars, dir, loaded>>

(* The fields of InferenceConfig, in the order in which they are read.     *)
JsonFiles ==
  <<"config", "gen_config", "special_tokens_map", "tok_config", "tok">>
Names == ToSet(JsonFiles) \cup {"tensors"}

(* A file of tensors begins with the size of its header, of which prefix   *)
(* bytes are there; text is what follows.                                  *)
Absent == [exists |-> FALSE, size |-> 0, prefix |-> 0, text |-> <<>>]
Empty == [Absent EXCEPT !.exists = TRUE]
File(text) == [Empty EXCEPT !.text = text]
Begun(length, text) ==
  [exists |-> TRUE, size |-> length, prefix |-> SizeBytes, text |-> text]

(* The size, the header and some data. *)
TensorsFile(header) == Begun(Len(header), header \o <<"}">>)

(* A copy of a file that came to an early end. *)
Truncated(header) ==
  {Begun(Len(header), SubSeq(header, 1, n)) :
     n \in {Len(header) \div 2, Len(header) - 1} \cap Nat}
  \cup {[Begun(Len(header), <<>>) EXCEPT !.prefix = n] :
          n \in 1 .. SizeBytes - 1}

Plain(name) == IF name = "tensors" THEN TensorsFile(<<"t">>) ELSE File(<<"t">>)

Directories ==
  {[[n \in Names |-> Plain(n)] EXCEPT ![odd] = f] :
     odd \in ToSet(JsonFiles), f \in {File(document), Absent}}
  \cup {[[n \in Names |-> Plain(n)] EXCEPT !.tensors = f] :
          f \in {TensorsFile(document), Absent, Empty}
                  \cup Truncated(document)}

NoDirectory == [n \in {} |-> Absent]
NotLoaded == [err |-> "pending", val |-> NoDirectory, data_offset |-> 0]

-----------------------------------------------------------------------------
Failure(e) == [err |-> e, val |-> <<>>]
Outcome(s) == [err |-> s.err, val |-> s.val]

(* A file is read without timeouts.  Parse takes its size as an int. *)
ParseFile(f) ==
  IF f.exists THEN Outcome(Parse(f.text, Narrowed(Len(f.text))))
  ELSE Failure("system")

(* What the first bytes say.  Behind the end of a file its last page goes  *)
(* on with zeros.                                                          *)
SizeField(f) ==
  [i \in Bytes |-> IF i < f.prefix THEN Stored(BitsOf(f.size))[i] ELSE {}]

(* Nobody compares the size with that of the file.  The header may end     *)
(* with zeros then, which is no JSON, or behind the last page; but if the  *)
(* size is no positive int, then the string for the header cannot be made. *)
(* An empty file cannot be mapped, which is not noticed before it is read. *)
LoadFile(f, header_size, beyond) ==
  CASE ~f.exists -> Failure("system")
    [] f.exists /\ f.prefix = 0 -> Failure("fault")
    [] f.exists /\ f.prefix > 0 /\ header_size > Len(f.text) ->
         Failure(IF Fits(header_size, SignBit) THEN beyond ELSE "fault")
    [] OTHER ->
         Outcome(Parse(SubSeq(f.text, 1, header_size), Narrowed(header_size)))

ReadFiles(header_size, beyond) ==
  [n \in Names |-> IF n = "tensors" THEN LoadFile(dir'[n], header_size, beyond)
                   ELSE ParseFile(dir'[n])]

(* One after the other; the first that fails ends it. *)
Loaded(read, header_size) ==
  LET order == Append(JsonFiles, "tensors")
      failing == {i \in DOMAIN order : read[order[i]].err # "none"}
  IN IF failing = {}
     THEN [err |-> "none", val |-> [n \in Names |-> read[n].val],
           data_offset |-> SizeBytes + header_size]
     ELSE [NotLoaded EXCEPT !.err = read[order[Min(failing)]].err]

LoadConfig ==
  /\ stream = Unsent /\ loaded = NotLoaded
  /\ dir' \in Directories
  /\ \E bits \in HeaderSizes(SizeField(dir'.tensors)),
        beyond \in {"parse", "fault"} :
       LET header_size == NumberOf(bits)
       IN loaded' = Loaded(ReadFiles(header_size, beyond), header_size)
  /\ UNCHANGED vars

-----------------------------------------------------------------------------
ModelInit ==
  /\ Init
  /\ dir = NoDirectory
  /\ loaded = NotLoaded

ModelNext ==
  \/ LoadConfig
  \/ loaded = NotLoaded /\ Next /\ UNCHANGED <<dir, loaded>>
  \/ loaded # NotLoaded /\ UNCHANGED modelVars

ModelSpec == ModelInit /\ [][ModelNext]_modelVars

-----------------------------------------------------------------------------
(* What a file means. *)
Contents(n) ==
  LET f == dir[n]
      text == IF n = "tensors" THEN SubSeq(f.text, 1, f.size) ELSE f.text
  IN Parse(text, Len(text))
IsWhole(n) ==
  /\ dir[n].exists
  /\ n = "tensors" =>
       dir[n].prefix = SizeBytes /\ dir[n].size <= Len(dir[n].text)
  /\ Ok(Contents(n))

(* The sizes that become ints. *)
SizeOf(n) == IF n = "tensors" THEN dir[n].size ELSE Len(dir[n].text)
IsPositiveInt(n) == Fits(n, SignBit)
IsNegativeInt(n) == Fits(n, IntBits) /\ ~Fits(n, SignBit)

(* A model is loaded if and only if each of its files is whole, and each   *)
(* value comes from its own file, as long as the sizes of the header and   *)
(* of the other files are positive ints.  A size that becomes a negative   *)
(* int is never misread: the model is not loaded.  (A file that is larger  *)
(* still is parsed as far as the lower bits of its size say.)              *)
ModelIsReadWhole ==
  loaded # NotLoaded =>
    /\ (\A n \in Names : IsPositiveInt(SizeOf(n))) =>
         /\ loaded.err = "none" <=> \A n \in Names : IsWhole(n)
         /\ loaded.err = "none" =>
              /\ \A n \in Names : loaded.val[n] = Contents(n).val
              /\ loaded.data_offset = SizeBytes + SizeOf("tensors")
    /\ (\E n \in Names : IsNegativeInt(SizeOf(n))) => loaded.err # "none"
=============================================================================
