----------------------------- MODULE DeviceIds -----------------------------
(***************************************************************************)
(* The forms of a device id on its way from a viewer to the car and back:  *)
(* a string of hexadecimal digits with the SIM number in front and the     *)
(* logic channel in the last two, the number that string is in base 16,    *)
(* and the SIM and channel of the command that makes the platform open the *)
(* car, which writes both into the headers of its packets.  Elsewhere a    *)
(* device is one model value.  A digit is its value; what a viewer typed   *)
(* that is longer than an id is left out.                                  *)
(***************************************************************************)
EXTENDS Naturals, Sequences, FiniteSets

CONSTANTS SimDigits,    \* digits of a SIM number, 12
          Digits        \* the digits that occur: of 0..15

ASSUME DigitsAssumption == SimDigits \in Nat \ {0} /\ Digits \subseteq 0..15

IdDigits == SimDigits + 2
NoCommand == [sim |-> <<>>, channel |-> <<>>]

VARIABLES typed,        \* the string the viewer asked for
          listed,       \* the channel ForwardServer lists it under
          command,      \* what SendCommandTo808 pushed
          published,    \* the device id of the packets of the car it opened
          stage         \* how far the request has come

idVars == <<typed, listed, command, published, stage>>

-----------------------------------------------------------------------------
(* strtoull: the digits in front are the number before the last.           *)
Number(base, digits) ==
    LET value[i \in 0..Len(digits)] ==
            IF i = 0 THEN 0 ELSE base * value[i - 1] + digits[i]
    IN  value[Len(digits)]

(* GenerateDeviceId, GenerateDeviceIdByBuffer. *)
GenerateDeviceId(string) == Number(16, string)

(* What printing leaves of a number when i digits have been taken off it.  *)
Left(id) ==
    LET left[i \in 0..IdDigits] == IF i = 0 THEN id ELSE left[i - 1] \div 16
    IN  left

(* Faulty variant: "%lx". *)
UnpaddedDeviceIdStr(id) ==
    LET n == Cardinality({k \in 0..IdDigits - 1 : Left(id)[k] > 0})
    IN  [i \in 1..n |-> Left(id)[n - i] % 16]

(* "%014lx". *)
GenerateDeviceIdStrByDeviceId(id) ==
    [i \in 1..IdDigits |-> Left(id)[IdDigits - i] % 16]

(* From a packet's header: the SIM in BCD, which two hexadecimal digits    *)
(* per byte show as it is, and the channel's byte in hexadecimal too.      *)
GenerateDeviceIdStr(sim, channel) == sim \o <<channel \div 16, channel % 16>>

-----------------------------------------------------------------------------
IdInit ==
    /\ typed \in UNION {[1..n -> Digits] : n \in 1..IdDigits}
    /\ listed = 0 /\ published = 0
    /\ command = NoCommand
    /\ stage = "typed"

(* The request as it was typed arrives at ForwardServer. *)
Subscribed ==
    /\ stage = "typed"
    /\ listed' = GenerateDeviceId(typed)
    /\ stage' = "subscribed"
    /\ UNCHANGED <<typed, command, published>>

(* After a reconnection PcServer asks for the number it keeps, printed.    *)
SubscribedAgain ==
    /\ stage # "typed"
    /\ listed' = GenerateDeviceId(GenerateDeviceIdStrByDeviceId(GenerateDeviceId(typed)))
    /\ UNCHANGED <<typed, command, published, stage>>

(* SendCommandTo808 refuses what is not as long as an id, and takes a zero *)
(* off the front of the channel.                                           *)
SendCommandTo808 ==
    /\ stage = "subscribed"
    /\ LET string == GenerateDeviceIdStrByDeviceId(listed)
       IN  IF Len(string) # IdDigits
           THEN UNCHANGED command
           ELSE command' = [sim |-> SubSeq(string, 1, SimDigits),
                            channel |-> SubSeq(string, IF string[IdDigits - 1] = 0
                                                       THEN IdDigits ELSE IdDigits - 1,
                                               IdDigits)]
    /\ stage' = "commanded"
    /\ UNCHANGED <<typed, listed, published>>

(* The platform reads SIM and channel as decimal numbers, and the car it   *)
(* opens puts them into its packets.                                       *)
CarPublishes ==
    /\ stage = "commanded"
    /\ command # NoCommand
    /\ \A i \in 1..SimDigits : command.sim[i] < 10
    /\ \A i \in DOMAIN command.channel : command.channel[i] < 10
    /\ LET channel == Number(10, command.channel)
       IN  published' = GenerateDeviceId(GenerateDeviceIdStr(command.sim, channel))
    /\ stage' = "publishing"
    /\ UNCHANGED <<typed, listed, command>>

IdNext == Subscribed \/ SubscribedAgain \/ SendCommandTo808 \/ CarPublishes

IdSpec == IdInit /\ [][IdNext]_idVars

-----------------------------------------------------------------------------
(* Properties.                                                             *)

(* For a SIM number and a channel below ten the car that is opened for a   *)
(* viewer publishes under the id the viewer is listed with - whatever      *)
(* zeros stand in front and whichever form the id had on the way, and no   *)
(* request is left without a command.  With a channel of ten or more it    *)
(* never does: the channel is hexadecimal in the id and decimal in the     *)
(* command.                                                                *)
ServedBelowTen ==
    /\ stage = "publishing" => (published = listed <=> listed % 256 < 10)
    /\ stage = "commanded" => command # NoCommand
=============================================================================
