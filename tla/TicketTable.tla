----------------------------- MODULE TicketTable -----------------------------
(***************************************************************************)
(* The rows of table tickets (domain/Ticket.java).  Every committed change *)
(* of a row also increments its @Version column.                           *)
(***************************************************************************)
EXTENDS Naturals, TicketStateMachine

CONSTANTS Tickets,      \* identities of tickets that may be created
          NoTicket      \* the ticket of a row that does not exist

ASSUME NoTicketAssumption == NoTicket \notin Tickets

VARIABLES ticketStatus, \* a status, or "absent" while no row exists
          ticketVersion \* the @Version column

ticketVars == <<ticketStatus, ticketVersion>>

TicketTypeOK ==
    /\ ticketStatus \in [Tickets -> TicketStatuses \cup {"absent"}]
    /\ ticketVersion \in [Tickets -> Nat]

TicketInit ==
    /\ ticketStatus = [t \in Tickets |-> "absent"]
    /\ ticketVersion = [t \in Tickets |-> 0]

\* What a transaction sees of a ticket when it reads the row.
TicketSnapshot(t) == [ticket |-> t, version |-> ticketVersion[t],
                      status |-> ticketStatus[t]]

TicketSnapshots == [ticket : Tickets, version : Nat,
                    status : TicketStatuses \cup {"absent"}]

\* The optimistic check Hibernate makes when it writes a row it has read:
\* UPDATE ... WHERE id = ? AND version = ?.
LastWriterWins(snap) == TRUE
SnapshotIsCurrent(snap) == ticketVersion[snap.ticket] = snap.version

\* A bulk update that writes the status but not the version.
MoveTicketsUnversioned(T, next) ==
    /\ ticketStatus' = [t \in Tickets |-> IF t \in T THEN next ELSE ticketStatus[t]]
    /\ UNCHANGED ticketVersion

\* The new status of every ticket in T, written in one transaction.
MoveTickets(T, next) ==
    /\ ticketStatus' = [t \in Tickets |-> IF t \in T THEN next ELSE ticketStatus[t]]
    /\ ticketVersion' = [t \in Tickets |->
                            IF t \in T THEN ticketVersion[t] + 1 ELSE ticketVersion[t]]

\* A transaction that read snap writes the ticket: the transition must be legal
\* for the status it read, and the row must not have changed since.
UpdateTicket(snap, next) ==
    /\ CanTransition(snap.status, next)
    /\ SnapshotIsCurrent(snap)
    /\ MoveTickets({snap.ticket}, next)

=============================================================================
