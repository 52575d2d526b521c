---------------------------- MODULE MCPacketBuilder ----------------------------
(***************************************************************************)
(* An instance of PacketBuilder for TLC.  MAX_DATA_SIZE 3 and blocks of    *)
(* two packets: files up to 13 bytes take none, one, two or three blocks,  *)
(* with full and short last packets and blocks.                            *)
(***************************************************************************)
EXTENDS PacketBuilder

MCMaxDataSize == 3
MCQueueSize == 2
MCMaxFileSize == 13
===============================================================================
