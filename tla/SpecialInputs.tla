---------------------------- MODULE SpecialInputs ----------------------------
(***************************************************************************)
(* StatefulModelInstance::validateSpecialKeys and the two extractors it    *)
(* calls (src/src/statefulmodelinstance.cpp): how the sequence_id and      *)
(* sequence_control_input tensors of a predict request become a validated  *)
(* (control, id) pair or an error status.                                  *)
(*                                                                         *)
(* A tensor proto is abstracted to what the extractors read: its shape     *)
(* (the sequence of dimension sizes), its declared dtype, which repeated   *)
(* value field it fills and how many values it holds there, and the value. *)
(* The state machine takes one request and validates it, so a run visits   *)
(* every request of the bounded input domain.                              *)
(***************************************************************************)
EXTENDS Naturals, Sequences

LOCAL INSTANCE SequencesExt

CONSTANTS
    Shapes,     \* tensor shapes clients send, as sequences of dim sizes
    Dtypes,     \* declared element types clients send
    IdValues,   \* uint64 values of sequence_id
    CtlValues,  \* uint32 values of sequence_control_input
    MaxValues,  \* bound: values in a repeated field
    Absent,     \* the input is not in the request
    WellTypedOnly \* clients fill the value field their dtype names

VARIABLES request, result

vars == <<request, result>>

ValueFields == {"uint64_val", "uint32_val"}

FieldOf == [DT_UINT64 |-> "uint64_val", DT_UINT32 |-> "uint32_val"]

WellTyped(p) == p.dtype \in DOMAIN FieldOf /\ FieldOf[p.dtype] = p.field

Protos(Values) ==
    {p \in [shape : Shapes, dtype : Dtypes, field : ValueFields,
            count : 0..MaxValues, value : Values] :
        WellTypedOnly => WellTyped(p)}

Requests ==
    [sequence_id : Protos(IdValues) \cup {Absent},
     sequence_control_input : Protos(CtlValues) \cup {Absent}]

\* The size of a repeated value field of a proto.
ValSize(p, f) == IF p.field = f THEN p.count ELSE 0

Ok(v) == [status |-> "OK", value |-> v]
Err(s) == [status |-> s, value |-> <<>>]

(***************************************************************************)
(* extractSequenceId / extractSequenceControlInput: shape checks first,    *)
(* then exactly one value in the field of the expected width.             *)
(***************************************************************************)
\* Variant: the rank of the shape never checked.
ExtractNoRankCheck(p, f, badType) ==
    IF Len(p.shape) = 0 THEN Err("SPECIAL_INPUT_NO_TENSOR_SHAPE")
    ELSE IF p.shape[1] # 1 THEN Err("INVALID_SHAPE")
    ELSE IF ValSize(p, f) = 1 THEN Ok(p.value)
    ELSE Err(badType)

Extract(p, f, badType) ==
    IF Len(p.shape) = 0 THEN Err("SPECIAL_INPUT_NO_TENSOR_SHAPE")
    ELSE IF Len(p.shape) # 1 THEN Err("INVALID_NO_OF_SHAPE_DIMENSIONS")
    ELSE IF p.shape[1] # 1 THEN Err("INVALID_SHAPE")
    ELSE IF ValSize(p, f) = 1 THEN Ok(p.value)
    ELSE Err(badType)

ExtractSequenceId(p) == Extract(p, "uint64_val", "SEQUENCE_ID_BAD_TYPE")

ExtractSequenceControlInput(p) ==
    Extract(p, "uint32_val", "SEQUENCE_CONTROL_INPUT_BAD_TYPE")

SEQUENCE_START == 1
NO_CONTROL_INPUT == 0
SEQUENCE_END == 2

(***************************************************************************)
(* validateSpecialKeys: an absent input keeps its default (id 0, control   *)
(* CONTINUE); the id is extracted before the control input; then the      *)
(* control value and the id/control combination are checked.              *)
(***************************************************************************)
ValidateSpecialKeys(r) ==
    LET idRes  == IF r.sequence_id = Absent THEN Ok(0)
                  ELSE ExtractSequenceId(r.sequence_id)
        ctlRes == IF r.sequence_control_input = Absent THEN Ok(NO_CONTROL_INPUT)
                  ELSE ExtractSequenceControlInput(r.sequence_control_input)
        id  == idRes.value
        ctl == ctlRes.value
    IN  IF idRes.status # "OK" THEN idRes
        ELSE IF ctlRes.status # "OK" THEN ctlRes
        ELSE IF ctl \notin {SEQUENCE_END, NO_CONTROL_INPUT, SEQUENCE_START}
             THEN Err("INVALID_SEQUENCE_CONTROL_INPUT")
        ELSE IF ctl \in {SEQUENCE_END, NO_CONTROL_INPUT} /\ id = 0
             THEN Err("SEQUENCE_ID_NOT_PROVIDED")
        ELSE [status |-> "OK", value |-> <<ctl, id>>]

-----------------------------------------------------------------------------
(***************************************************************************)
(* The extractor as spec.md 4.E states it: of the checks a special input  *)
(* fails, the first in priority order is reported, where a value of the   *)
(* wrong element type or a missing value is a BAD_TYPE error; the          *)
(* cross-field rule applies to the values of two inputs that pass.         *)
(***************************************************************************)
Priority == <<"SPECIAL_INPUT_NO_TENSOR_SHAPE", "INVALID_NO_OF_SHAPE_DIMENSIONS",
              "INVALID_SHAPE", "BAD_TYPE">>

Fails(p, dtype, f) ==
    [SPECIAL_INPUT_NO_TENSOR_SHAPE  |-> p.shape = <<>>,
     INVALID_NO_OF_SHAPE_DIMENSIONS |-> Len(p.shape) > 1,
     INVALID_SHAPE  |-> Len(p.shape) = 1 /\ p.shape[1] # 1,
     BAD_TYPE       |-> p.dtype # dtype \/ ValSize(p, f) # 1]

FirstFailure(p, dtype, f) ==
    Priority[SelectInSeq(Priority, LAMBDA k : Fails(p, dtype, f)[k])]

SpecInput(p, dtype, f, badType, default) ==
    IF p = Absent THEN Ok(default)
    ELSE IF \E k \in DOMAIN Fails(p, dtype, f) : Fails(p, dtype, f)[k]
         THEN LET e == FirstFailure(p, dtype, f)
              IN  Err(IF e = "BAD_TYPE" THEN badType ELSE e)
         ELSE Ok(p.value)

SpecValidate(r) ==
    LET idRes  == SpecInput(r.sequence_id, "DT_UINT64", "uint64_val",
                            "SEQUENCE_ID_BAD_TYPE", 0)
        ctlRes == SpecInput(r.sequence_control_input, "DT_UINT32", "uint32_val",
                            "SEQUENCE_CONTROL_INPUT_BAD_TYPE", NO_CONTROL_INPUT)
        Signals == {SEQUENCE_START, NO_CONTROL_INPUT, SEQUENCE_END}
    IN  CASE idRes.status # "OK"  -> idRes
          [] ctlRes.status # "OK" -> ctlRes
          [] ctlRes.value \notin Signals -> Err("INVALID_SEQUENCE_CONTROL_INPUT")
          [] ctlRes.value # SEQUENCE_START /\ idRes.value = 0 ->
                 Err("SEQUENCE_ID_NOT_PROVIDED")
          [] OTHER -> [status |-> "OK", value |-> <<ctlRes.value, idRes.value>>]

-----------------------------------------------------------------------------
Pending == [status |-> "PENDING", value |-> <<>>]

Init ==
    /\ request \in Requests
    /\ result = Pending

Validate ==
    /\ result = Pending
    /\ result' = ValidateSpecialKeys(request)
    /\ UNCHANGED request

Next == Validate

Spec == Init /\ [][Next]_vars

(***************************************************************************)
(* validateSpecialKeys reports, for every request, the status spec.md 4.E  *)
(* prescribes (the first failing check of the first failing input, then    *)
(* the cross-field rule) and, on success, the control and id it extracted. *)
(***************************************************************************)
ValidationMatchesSpec ==
    result # Pending => result = SpecValidate(request)
=============================================================================
