----------------------------- MODULE GameSocket -----------------------------
(***************************************************************************)
(* The receiving half of the game connection: Core::Connection and CSocket *)
(* read what the socket has, decompress it and append it to the message    *)
(* parser (Core::PacketMessage); Core::PacketReader takes every complete   *)
(* packet out of the parser and hands it to its handler, which may close   *)
(* the connection.                                                         *)
(*                                                                         *)
(* The socket objects live as long as the program: closing and connecting  *)
(* again reuses the parser and the decompressor.                           *)
(***************************************************************************)
EXTENDS Huffman

CONSTANTS Packets,      \* the packets the server may send, tuples of symbols
          Size,         \* m_Packets[id].Size; 0 stands for a variable size
          MaxSent,      \* bound: packets the server sends on a connection
          MaxSessions   \* bound: connections

(* A packet has the size of its identifier, or the one it states itself.   *)
ASSUME PacketsAssumption ==
  \A p \in Packets :
    /\ p \in Seq(Nat)
    /\ Len(p) >= (IF Size[p[1]] # 0 THEN 1 ELSE 3)
    /\ Len(p) = (IF Size[p[1]] # 0 THEN Size[p[1]] ELSE 256 * p[2] + p[3])

(* The server's code and the client's tree belong together: the bytes of   *)
(* one packet, on their own, become that packet again.                     *)
ASSUME CodeAssumption ==
  \A p \in Packets :
    /\ Compress(p) \in Seq(Byte)
    /\ Decompress(0, Compress(p)).out = p
    /\ Decompress(0, Compress(p)).treepos = 0

VARIABLES m_connected,  \* Core::Connection
          m_data,       \* Core::PacketMessage: symbols not yet handled
          treepos,      \* CDecompressingCopier
          reading,      \* PacketReader::Read is in its loop
          wire,         \* compressed bytes on their way
          sent,         \* packets sent on this connection
          handled,      \* packets handled of this connection
          sessions,
          leftover      \* the connection began inside the tree (history)

vars == <<m_connected, m_data, treepos, reading, wire, sent, handled, sessions,
          leftover>>

Compressed == [p \in Packets |-> Compress(p)]

-----------------------------------------------------------------------------
(* Core::PacketMessage::Read: the packet at the front of the parser, or    *)
(* nothing while its size or its last byte is missing (or a size of 0 says *)
(* that there is none, which ends the loop as well).                       *)
WantSize == IF Size[m_data[1]] # 0 THEN Size[m_data[1]]
            ELSE 256 * m_data[2] + m_data[3]

HasPacketBehind ==
  /\ m_data # <<>>
  /\ Size[m_data[1]] = 0 => Len(m_data) >= 3
  /\ Len(m_data) > WantSize
  /\ WantSize > 0

HasPacket ==
  /\ m_data # <<>>
  /\ Size[m_data[1]] = 0 => Len(m_data) >= 3
  /\ Len(m_data) >= WantSize
  /\ WantSize > 0

-----------------------------------------------------------------------------
(* Core::Connection *)

DisconnectKeepsData ==
  /\ m_connected' = FALSE
  /\ wire' = <<>>
  /\ UNCHANGED m_data

Disconnect ==
  /\ m_connected' = FALSE
  /\ m_data' = <<>>
  /\ wire' = <<>>

Connect ==
  /\ ~m_connected /\ ~reading
  /\ sessions < MaxSessions
  /\ sessions' = sessions + 1
  /\ m_connected' = TRUE
  /\ m_data' = <<>>
  /\ sent' = <<>> /\ handled' = <<>> /\ wire' = <<>>
  /\ leftover' = (treepos # 0)
  /\ UNCHANGED <<treepos, reading>>

(* ReadyRead finds an error, or Read does and OnReadFailed disconnects. *)
LoseConnection ==
  /\ m_connected /\ ~reading
  /\ Disconnect
  /\ UNCHANGED <<treepos, reading, sent, handled, sessions, leftover>>

-----------------------------------------------------------------------------
(* Core::PacketReader::Read *)

RestartTree ==
  /\ m_connected /\ ~reading
  /\ \E n \in 1..Len(wire) :
       LET s == Decompress(0, SubSeq(wire, 1, n))
       IN /\ m_data' = m_data \o s.out
          /\ treepos' = s.treepos
          /\ wire' = SubSeq(wire, n + 1, Len(wire))
  /\ reading' = TRUE
  /\ UNCHANGED <<m_connected, sent, handled, sessions, leftover>>

(* The socket has some of the bytes under way: all are decompressed. *)
Receive ==
  /\ m_connected /\ ~reading
  /\ \E n \in 1..Len(wire) :
       LET s == Decompress(treepos, SubSeq(wire, 1, n))
       IN /\ m_data' = m_data \o s.out
          /\ treepos' = s.treepos
          /\ wire' = SubSeq(wire, n + 1, Len(wire))
  /\ reading' = TRUE
  /\ UNCHANGED <<m_connected, sent, handled, sessions, leftover>>

(* A turn of the loop: the handler may leave the connection alone or close *)
(* it (LogOut, the relay to another server), which empties the parser.     *)
HandlePacket ==
  /\ reading /\ HasPacket
  /\ handled' = Append(handled, SubSeq(m_data, 1, WantSize))
  /\ \/ /\ m_data' = SubSeq(m_data, WantSize + 1, Len(m_data))
        /\ UNCHANGED <<m_connected, wire>>
     \/ Disconnect
  /\ UNCHANGED <<treepos, reading, sent, sessions, leftover>>

ReadDone ==
  /\ reading /\ ~HasPacket
  /\ reading' = FALSE
  /\ UNCHANGED <<m_connected, m_data, treepos, wire, sent, handled, sessions, leftover>>

-----------------------------------------------------------------------------
(* The server, external *)

ServerSend ==
  /\ m_connected
  /\ Len(sent) < MaxSent
  /\ \E p \in Packets :
       /\ sent' = Append(sent, p)
       /\ wire' = wire \o Compressed[p]
  /\ UNCHANGED <<m_connected, m_data, treepos, reading, handled, sessions, leftover>>

-----------------------------------------------------------------------------
Init ==
  /\ m_connected = TRUE
  /\ m_data = <<>>
  /\ treepos = 0
  /\ reading = FALSE
  /\ wire = <<>>
  /\ sent = <<>>
  /\ handled = <<>>
  /\ sessions = 1
  /\ leftover = FALSE

Next ==
  \/ Connect
  \/ LoseConnection
  \/ Receive
  \/ HandlePacket
  \/ ReadDone
  \/ ServerSend

(* The main loop calls Recv every frame. *)
Spec == Init /\ [][Next]_vars
LiveSpec == Spec /\ WF_vars(Receive) /\ WF_vars(HandlePacket) /\ WF_vars(ReadDone)

-----------------------------------------------------------------------------
(* Properties *)

(* However the stream is cut into reads, the handlers see the packets the  *)
(* server sent on this connection, whole and in order, and nothing of an   *)
(* earlier connection.                                                     *)
HandledInOrder == ~leftover => IsPrefix(handled, sent)

(* No packet waits for the next one: when all bytes have been read, all    *)
(* packets have been handled.                                              *)
NothingLeftBehind ==
  ~leftover /\ m_connected /\ wire = <<>> /\ ~reading => handled = sent

(* The same of every connection, also of one that follows a connection     *)
(* lost in the middle of a symbol.  It does not hold: only the constructor *)
(* calls initialise(), so the first symbol starts inside the tree.         *)
EveryConnectionInOrder == IsPrefix(handled, sent)

(* A handler that closes the connection is the last one to run: packets    *)
(* that were already in the parser are dropped.                            *)
NoPacketAfterDisconnect ==
  [][handled' # handled /\ sessions' = sessions => m_connected]_vars

(* Every packet is handled at last, unless the connection ends. *)
EveryPacketHandled ==
  \A n \in 1..MaxSent :
    ~leftover /\ m_connected /\ Len(sent) = n ~> ~m_connected \/ Len(handled) >= n
=============================================================================
