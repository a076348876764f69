------------------------------ MODULE HotelDb ------------------------------
(* What every HotelOS service relies on in the shared SQLite database: the *)
(* values of the status columns, how Entity Framework picks rows and ids,  *)
(* and which columns SaveChanges really writes.                            *)
EXTENDS Naturals

RoomStatus    == {"Clean", "Dirty", "Being Cleaned", "Occupied", "Maintenance"}
GuestStatus   == {"Absent", "CheckedIn", "CheckedOut"}
BookingStatus == {"Absent", "Active", "Completed"}
TaskStatus    == {"Absent", "Pending", "In Progress", "Finished"}
IssueStatus   == {"Absent", "Pending", "Assigned", "Resolved"}

(* FirstOrDefault over a table: the matching row with the lowest id (rows  *)
(* are scanned in rowid order).  A new row takes the lowest Absent id.     *)
IsFirst(i, S) == i \in S /\ \A j \in S : i <= j

(* SaveChanges compares a tracked entity with the values it was read with  *)
(* and writes only the columns that differ: a column set to the value that *)
(* was read keeps whatever is stored by then.                              *)
Saved(read, set, stored) == IF set = read THEN stored ELSE set
=============================================================================
