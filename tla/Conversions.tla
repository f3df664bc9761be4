---------------------------- MODULE Conversions ----------------------------
(***************************************************************************)
(* What the server makes of strings with variables and colours (Markup),   *)
(* and what both programs make of bytes (Bytes), for one sample each.      *)
(***************************************************************************)
EXTENDS Naturals

CONSTANTS
  ServerEnvironment,  \* the environment variables of the server
  Colors,             \* as in Markup
  Base, LongestName   \* as in Bytes, where it is Name

ASSUME BytesAssumption == Base \in Nat \ {0, 1} /\ LongestName \in Nat \ {0}

VARIABLE sample

M == INSTANCE Markup WITH Environment <- ServerEnvironment, input <- sample
Octets == INSTANCE Bytes WITH Name <- LongestName, input <- sample

\* What is between "<" and ">" never changes a string to something that was not meant, in
\* the configuration and in messages, when its variables are those of the environment with
\* more than one letter (EVSStrResolver, ConStrPropResolver).
StringsAsMeant == M!StringsAsMeant

\* What one program writes the other reads, whatever it is, and what ends early is refused
\* (ArrayEditor, ResponseBuilder, BFL, UIFDecoder, Version).
WrittenIsRead == Octets!WrittenIsRead
=============================================================================
