---------------------------- MODULE Conversions ----------------------------
(***************************************************************************)
(* The forms a tag takes on its way: the JSON object of a request or of an *)
(* answer (pkg/dto/dto.go), types.UserTag in memory, and the protobuf      *)
(* message that profiles and Kafka hold (pkg/types/userTag.go).  Of its    *)
(* fields only those are kept that some conversion changes: the others are *)
(* copied.  A device and an action are strings in JSON and numbers         *)
(* elsewhere; a time has fractions of a millisecond, which the format of   *)
(* the answer drops; a product id is a 64-bit int in JSON and in memory    *)
(* and an int32 in protobuf.                                               *)
(***************************************************************************)
EXTENDS Integers

CONSTANTS
    Milli,          \* ticks of a millisecond
    Int32Half       \* 2^31

ASSUME ConversionsAssumption == Milli \in Nat \ {0} /\ Int32Half \in Nat \ {0}

\* toDevice and ToAction, and the numbers they yield.
ToDevice == [PC |-> 0, MOBILE |-> 1, TV |-> 2]

ToAction == [VIEW |-> 0, BUY |-> 1]

DeviceSwapped(n) == CASE n = 0 -> "PC" [] n = 1 -> "TV" [] n = 2 -> "MOBILE" \* seeded defect

\* Device.String and Action.String.
DeviceString(n) == CASE n = 0 -> "PC" [] n = 1 -> "MOBILE" [] n = 2 -> "TV"

ActionString(n) == CASE n = 0 -> "VIEW" [] n = 1 -> "BUY"

\* The JSON is bound and converted without an error.
IsTag(dto) == dto.device \in DOMAIN ToDevice /\ dto.action \in DOMAIN ToAction

FromUserTagDTO(dto) ==
    [time |-> dto.time, device |-> ToDevice[dto.device], action |-> ToAction[dto.action],
     productId |-> dto.productId]

\* int32(n)
Int32(n) == ((n + Int32Half) % (2 * Int32Half)) - Int32Half

\* Every UserTag that came from a DTO has an action the protobuf knows.
MarshalUserTag(tag) == [tag EXCEPT !.productId = Int32(@)]

\* UnmarshalUserTag: nothing is lost on the way back.
UnmarshalUserTag(message) == message

UnixMilli(time) == time \div Milli

\* The layout of the time has three digits after the seconds.
IntoUserTagDTO(tag) ==
    [time |-> UnixMilli(tag.time) * Milli, device |-> DeviceString(tag.device),
     action |-> ActionString(tag.action), productId |-> tag.productId]
=============================================================================
