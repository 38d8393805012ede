--------------------------- MODULE Ed25519Layout ---------------------------
(***************************************************************************)
(* signature::verify_message of the Solana contract: the runtime's ed25519 *)
(* program checks signatures at offsets another instruction gives, and the *)
(* contract checks that those offsets are the fields of the message it was *)
(* handed.  Also the two SDK functions that build the offsets.             *)
(*                                                                         *)
(* Instruction data are sequences of bytes; the lengths of the fields, the *)
(* values a byte has and the width of an offset are parameters.  One       *)
(* behaviour verifies one transaction.                                     *)
(***************************************************************************)
EXTENDS Integers, Sequences

CONSTANTS
    MAGIC_LEN, SIGNATURE_LEN, PUBKEY_LEN,
    ByteValues,             \* values of a byte
    SOLANA_FORMAT_MAGIC,    \* the field's value
    MaxU16,                 \* the largest offset
    Signed,                 \* triples <<signature, key, payload>> that verify
    Trusted,                \* keys that are trusted and have not expired
    Transactions,           \* the transactions to look at
    Calls                   \* arguments of verify_message

VARIABLES
    tx,     \* instructions: ed25519 ones have num and args, others have data
    args,   \* message_data, ed25519_instruction_index, signature_index, self
    out     \* what verify_message returns

layoutvars == <<tx, args, out>>

Bytes == Seq(0..(ByteValues - 1))

\* data[a..b], with offsets from 0.
InRange(data, a, b) == a <= b /\ b <= Len(data)
Slice(data, a, b) == SubSeq(data, a + 1, b)

MESSAGE_SIZE_LEN == 2

\* A little-endian number of two bytes.
ReadU16(bytes) == bytes[1] + ByteValues * bytes[2]
WriteU16(n) == <<n % ByteValues, n \div ByteValues>>

Ed25519SignatureOffsets ==
    [signature_offset : Nat, signature_instruction_index : Nat,
     public_key_offset : Nat, public_key_instruction_index : Nat,
     message_data_offset : Nat, message_data_size : Nat, message_instruction_index : Nat]

\* Of a transaction: what the ed25519 program is given, and bytes for others.
Instructions ==
    [program : {"ed25519"}, num : Nat, args : Seq(Ed25519SignatureOffsets)]
        \cup [program : {"lazer", "other"}, data : Bytes]

\* What the parameters have to be.  A size is a number of two bytes.
ASSUME LayoutAssumption ==
    /\ {MAGIC_LEN, SIGNATURE_LEN, PUBKEY_LEN} \subseteq Nat
    /\ ByteValues \in Nat \ {0} /\ MaxU16 \in 0..(ByteValues * ByteValues - 1)
    /\ SOLANA_FORMAT_MAGIC \in Bytes /\ Len(SOLANA_FORMAT_MAGIC) = MAGIC_LEN
    /\ \A s \in Signed : /\ s \in Bytes \X Bytes \X Bytes
                         /\ Len(s[1]) = SIGNATURE_LEN /\ Len(s[2]) = PUBKEY_LEN
    /\ Transactions \subseteq Seq(Instructions)
    /\ Calls \subseteq [message_data : Bytes, ed25519_instruction_index : Nat,
                        signature_index : Nat, self : Nat]

-----------------------------------------------------------------------------
(* Building the instruction *)

\* Ed25519SignatureOffsets::new, for a message at an offset of an instruction.
OffsetsNew(message, instruction_index, starting_offset) ==
    LET signature_offset == starting_offset + MAGIC_LEN
        public_key_offset == signature_offset + SIGNATURE_LEN
        message_data_size_offset == public_key_offset + PUBKEY_LEN
        message_data_offset == message_data_size_offset + MESSAGE_SIZE_LEN
    IN  [signature_offset |-> signature_offset,
         signature_instruction_index |-> instruction_index,
         public_key_offset |-> public_key_offset,
         public_key_instruction_index |-> instruction_index,
         message_data_offset |-> message_data_offset,
         message_data_size |-> ReadU16(Slice(message, message_data_size_offset - starting_offset,
                                             message_data_offset - starting_offset)),
         message_instruction_index |-> instruction_index]

\* ed25519_program_args
Ed25519ProgramArgs(signatures) ==
    [program |-> "ed25519", num |-> Len(signatures), args |-> signatures]

\* createEd25519Instruction of the JavaScript SDK: one signature.
createEd25519Instruction(message, instructionIndex, startingOffset) ==
    Ed25519ProgramArgs(<<OffsetsNew(message, instructionIndex, startingOffset)>>)

-----------------------------------------------------------------------------
(* The runtime *)

\* The ed25519 program fails the transaction unless every signature verifies.
RuntimeAccepts(t) ==
    \A i \in DOMAIN t : t[i].program = "ed25519" =>
        /\ t[i].num <= Len(t[i].args)
        /\ \A k \in 1..t[i].num :
              LET o == t[i].args[k]
                  At(index) == t[index + 1].data
              IN  /\ {o.signature_instruction_index, o.public_key_instruction_index,
                      o.message_instruction_index}
                        \subseteq {j - 1 : j \in {j \in DOMAIN t : t[j].program # "ed25519"}}
                  /\ InRange(At(o.signature_instruction_index), o.signature_offset,
                             o.signature_offset + SIGNATURE_LEN)
                  /\ InRange(At(o.public_key_instruction_index), o.public_key_offset,
                             o.public_key_offset + PUBKEY_LEN)
                  /\ InRange(At(o.message_instruction_index), o.message_data_offset,
                             o.message_data_offset + o.message_data_size)
                  /\ <<Slice(At(o.signature_instruction_index), o.signature_offset,
                             o.signature_offset + SIGNATURE_LEN),
                       Slice(At(o.public_key_instruction_index), o.public_key_offset,
                             o.public_key_offset + PUBKEY_LEN),
                       Slice(At(o.message_instruction_index), o.message_data_offset,
                             o.message_data_offset + o.message_data_size)>> \in Signed

-----------------------------------------------------------------------------
(* verify_message *)

\* Mutant: the number of signatures the program checks is not looked at.
SignatureChosenByLength(t, c) ==
    /\ c.ed25519_instruction_index < c.self
    /\ LET ed == t[c.ed25519_instruction_index + 1]
       IN  ed.program = "ed25519" /\ c.signature_index < Len(ed.args)

\* The chosen instruction precedes this one, is the ed25519 program's, and has
\* the chosen signature among those the program checked.
SignatureChosen(t, c) ==
    /\ c.ed25519_instruction_index < c.self
    /\ LET ed == t[c.ed25519_instruction_index + 1]
       IN  /\ ed.program = "ed25519"
           /\ c.signature_index < ed.num
           /\ c.signature_index < Len(ed.args)

\* The message that was handed over is at the signature's place in this
\* instruction's data, up to the end of the signed bytes, and has the magic.
MessageInPlace(data, c, o) ==
    LET message_end_offset == o.message_data_offset + o.message_data_size
    IN  /\ o.signature_offset >= MAGIC_LEN /\ message_end_offset <= MaxU16
        /\ InRange(data, o.signature_offset - MAGIC_LEN, message_end_offset)
        /\ Slice(data, o.signature_offset - MAGIC_LEN, message_end_offset) = c.message_data
        /\ Len(c.message_data) >= MAGIC_LEN
        /\ Slice(c.message_data, 0, MAGIC_LEN) = SOLANA_FORMAT_MAGIC

\* The key and the payload follow the signature as the format has them.
\* Offsets are 16 bits wide; a message too short for the size panics.
FieldsInPlace(c, o) ==
    LET message_offset == o.signature_offset - MAGIC_LEN
        public_key_offset == o.signature_offset + SIGNATURE_LEN
        message_size_offset == public_key_offset + PUBKEY_LEN
        message_data_offset == message_size_offset + MESSAGE_SIZE_LEN
    IN  /\ message_data_offset <= MaxU16
        /\ o.public_key_offset = public_key_offset
        /\ o.message_data_offset = message_data_offset
        /\ InRange(c.message_data, message_size_offset - message_offset,
                   message_data_offset - message_offset)
        /\ o.message_data_size = ReadU16(Slice(c.message_data, message_size_offset - message_offset,
                                               message_data_offset - message_offset))

\* All three are taken from this instruction.
SameInstruction(c, o) ==
    /\ o.signature_instruction_index = c.self
    /\ o.public_key_instruction_index = c.self
    /\ o.message_instruction_index = c.self

KeyStart == MAGIC_LEN + SIGNATURE_LEN
PayloadStart == KeyStart + PUBKEY_LEN + MESSAGE_SIZE_LEN

VerifyMessage(t, c) ==
    LET o == t[c.ed25519_instruction_index + 1].args[c.signature_index + 1]
        public_key == Slice(c.message_data, KeyStart, KeyStart + PUBKEY_LEN)
    IN  IF ~(/\ SignatureChosen(t, c)
             /\ MessageInPlace(t[c.self + 1].data, c, o)
             /\ FieldsInPlace(c, o)
             /\ SameInstruction(c, o))
        THEN [result |-> "InvalidInstructionData"]
        ELSE IF public_key \notin Trusted THEN [result |-> "MissingRequiredSignature"]
        ELSE [result |-> "ok", public_key |-> public_key,
              payload |-> Slice(c.message_data, PayloadStart, PayloadStart + o.message_data_size)]

LayoutInit == tx = <<>> /\ args = <<>> /\ out = [result |-> "none"]

\* A transaction whose signatures the runtime has accepted calls the contract,
\* in its instruction self or by way of the program called there.
Verify(t, c) ==
    /\ RuntimeAccepts(t)
    /\ c.self + 1 \in DOMAIN t /\ t[c.self + 1].program # "ed25519"
    /\ tx' = t /\ args' = c
    /\ out' = VerifyMessage(t, c)

LayoutNext == tx = <<>> /\ \E t \in Transactions, c \in Calls : Verify(t, c)

LayoutSpec == LayoutInit /\ [][LayoutNext]_layoutvars

-----------------------------------------------------------------------------
(* Properties *)

\* The message is the concatenation of its fields.
Message(magic, signature, key, payload) ==
    magic \o signature \o key \o WriteU16(Len(payload)) \o payload

\* What verify_message returns was signed: the ed25519 program has verified the
\* signature in the message over exactly the returned payload with the returned
\* key, and the message has nothing but its fields.
AcceptedWasSigned ==
    out.result = "ok" =>
        \E s \in Signed :
            /\ s[2] = out.public_key /\ s[3] = out.payload /\ out.public_key \in Trusted
            /\ args.message_data = Message(SOLANA_FORMAT_MAGIC, s[1], s[2], s[3])

\* The instruction the SDKs build for a signed message of a trusted key, placed
\* anywhere in the instruction's data that 16 bits reach, is accepted with that
\* payload.
SdkInstructionAccepted ==
    \A s \in Signed : \A start \in 0..MaxU16 :
        LET m == Message(SOLANA_FORMAT_MAGIC, s[1], s[2], s[3])
            data == tx[args.self + 1].data
        IN  (/\ out.result # "none" /\ s[2] \in Trusted
             /\ args.message_data = m /\ args.signature_index = 0
             /\ start + Len(m) <= MaxU16
             /\ InRange(data, start, start + Len(m)) /\ Slice(data, start, start + Len(m)) = m
             /\ args.ed25519_instruction_index < args.self
             /\ tx[args.ed25519_instruction_index + 1] = createEd25519Instruction(m, args.self, start))
            => out = [result |-> "ok", public_key |-> s[2], payload |-> s[3]]

\* verify_message accepts what was signed and nothing else, and the SDKs make
\* instructions it accepts.
VerifiedMeansSigned == AcceptedWasSigned /\ SdkInstructionAccepted
=============================================================================
