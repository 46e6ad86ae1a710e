---------------------------- MODULE Reservation ----------------------------
(***************************************************************************)
(* The screens of the application.  RequestVC searches a flight on a       *)
(* background queue behind a LoadingView and presents a ReservationVC for  *)
(* it; the reservation is confirmed, gets its two rides from blocks that   *)
(* run later on the main queue, and is cancelled.  All reservations share  *)
(* the one Flight of the RequestVC, and a block keeps its ReservationVC    *)
(* alive after the user has left it.                                       *)
(***************************************************************************)
EXTENDS Naturals, FiniteSets

CONSTANT MaxSearches    \* bound: searches in a behaviour

ASSUME ReservationAssumption == MaxSearches \in Nat

VARIABLES
    loading,        \* is the LoadingView visible? it takes all touches if so
    searches,       \* searches so far; the number of the last one
    searching,      \* searches whose block has not come back
    tempFlight,         \* tempFlight: the search that filled it in, and the search
                    \* during which toRidePickupTime was set
    top,            \* the reservation on the screen, 0 for the RequestVC
    reservation     \* the ReservationVCs, by the search that led to them

reservationVars == <<loading, searches, searching, tempFlight, top, reservation>>

-----------------------------------------------------------------------------
Search == 1..MaxSearches

\* The confirm button is tapped twice: the first tap asks for the ride to the
\* airport, the second for the one from it.
Button == {"confirm", "confirmed", "disabled"}

\* A reservation has the labels of a flight and of a pickup time; blocks that
\* are still to come are counted by ride.
NoReservation ==
    [shows |-> 0, pickup |-> 0, button |-> "confirm",
     to |-> "pending", from |-> "pending", toBlocks |-> 0, fromBlocks |-> 0]

ReservationTypeOK ==
    /\ loading \in {"hidden", "shown"}
    /\ searches \in 0..MaxSearches
    /\ searching \subseteq Search
    /\ tempFlight \in [search : 0..MaxSearches, pickup : 0..MaxSearches]
    /\ top \in 0..MaxSearches
    /\ reservation \in [Search -> [shows : 0..MaxSearches, pickup : 0..MaxSearches,
                                   button : Button,
                                   to : {"pending", "ride"}, from : {"pending", "ride"},
                                   toBlocks : 0..1, fromBlocks : 0..1]]

ReservationInit ==
    /\ loading = "hidden"
    /\ searches = 0
    /\ searching = {}
    /\ tempFlight = [search |-> 0, pickup |-> 0]
    /\ top = 0
    /\ reservation = [n \in Search |-> NoReservation]

\* setupWithFlight: and the two methods that show a ride.
SetupWithFlight(r) == [r EXCEPT !.shows = tempFlight.search, !.pickup = tempFlight.pickup,
                                !.button = "confirm"]

SetupToRide(r) == [r EXCEPT !.to = "ride"]

SetupFromRide(r) == [r EXCEPT !.from = "ride"]

\* The go button and the text field can be reached.
GoFree == top = 0 /\ loading = "hidden"

\* go:, by the button or the keyboard's return key; the flight is filled in at
\* once.
Go ==
    /\ GoFree
    /\ searches < MaxSearches
    /\ searches' = searches + 1
    /\ searching' = searching \cup {searches'}
    /\ tempFlight' = [search |-> searches', pickup |-> searches']
    /\ loading' = "shown"
    /\ UNCHANGED <<top, reservation>>

\* The block of a search: hide, performSegueWithIdentifier:, prepareForSegue: and
\* the reservation's viewDidLoad and viewWillAppear:.  A segue from a controller
\* that already presents one does nothing.
Found(n) ==
    /\ n \in searching
    /\ searching' = searching \ {n}
    /\ loading' = "hidden"
    /\ top' = IF top = 0 THEN n ELSE top
    /\ reservation' = [reservation EXCEPT ![n] =
                         IF top = 0 THEN SetupWithFlight(@) ELSE @]
    /\ UNCHANGED <<searches, tempFlight>>

\* confirm: of a reservation that is not confirmed.
Confirm ==
    /\ top # 0
    /\ reservation[top].button = "confirm"
    /\ reservation' = [reservation EXCEPT ![top].button = "confirmed", ![top].toBlocks = @ + 1]
    /\ UNCHANGED <<loading, searches, searching, tempFlight, top>>

\* confirm: of a confirmed reservation, after which the button is dead.
ConfirmAgain ==
    /\ top # 0
    /\ reservation[top].button = "confirmed"
    /\ reservation' = [reservation EXCEPT ![top].button = "disabled", ![top].fromBlocks = @ + 1]
    /\ UNCHANGED <<loading, searches, searching, tempFlight, top>>

\* Mutant: the pickup time is the one from when the reservation was made.
ToRide_ShowsPickup(n) ==
    /\ reservation[n].toBlocks > 0
    /\ tempFlight' = [tempFlight EXCEPT !.pickup = n]
    /\ reservation' = [reservation EXCEPT ![n] =
                         SetupToRide([@ EXCEPT !.toBlocks = reservation[n].toBlocks - 1])]
    /\ UNCHANGED <<loading, searches, searching, top>>

\* The block with the ride to the airport: it sets the pickup time of the shared
\* flight to now and shows the ride, whatever is on the screen.
ToRide(n) ==
    /\ reservation[n].toBlocks > 0
    /\ tempFlight' = [tempFlight EXCEPT !.pickup = searches]
    /\ reservation' = [reservation EXCEPT ![n] =
                         SetupToRide([@ EXCEPT !.toBlocks = reservation[n].toBlocks - 1])]
    /\ UNCHANGED <<loading, searches, searching, top>>

\* The block with the ride from the airport.
FromRide(n) ==
    /\ reservation[n].fromBlocks > 0
    /\ reservation' = [reservation EXCEPT ![n] =
                         SetupFromRide([@ EXCEPT !.fromBlocks = reservation[n].fromBlocks - 1])]
    /\ UNCHANGED <<loading, searches, searching, tempFlight, top>>

\* Mutant: the blocks do not keep the reservation alive.
Cancel_DropsBlocks ==
    /\ top # 0
    /\ top' = 0
    /\ reservation' = [reservation EXCEPT ![top].toBlocks = 0, ![top].fromBlocks = 0]
    /\ UNCHANGED <<loading, searches, searching, tempFlight>>

\* cancel: dismisses the reservation; its blocks still come.
Cancel ==
    /\ top # 0
    /\ top' = 0
    /\ UNCHANGED <<loading, searches, searching, tempFlight, reservation>>

ReservationNext ==
    \/ Go \/ Confirm \/ ConfirmAgain \/ Cancel
    \/ \E n \in Search : Found(n) \/ ToRide(n) \/ FromRide(n)

ReservationSpec == ReservationInit /\ [][ReservationNext]_reservationVars

-----------------------------------------------------------------------------
(* Properties                                                              *)

\* There is at most one search, and the loading view covers the screen exactly
\* while it runs (go: and its block); no search runs behind a reservation.
OneSearchAtATime ==
    /\ Cardinality(searching) <= 1
    /\ loading = "shown" <=> searching # {}
    /\ searching # {} => top = 0

\* A reservation on the screen shows the flight that was searched for it, with a
\* pickup time that is no older than that search, although a block of a reservation
\* that was left may have written to the shared flight in between.
ShowsItsFlight ==
    top # 0 => /\ top = searches
               /\ reservation[top].shows = searches
               /\ reservation[top].pickup = searches

\* Each ride is asked for at most once in a reservation and shown only after it
\* was asked for, however often the button is tapped and left alone.
RidesFollowTaps ==
    \A n \in Search :
        LET r == reservation[n] IN
        /\ r.toBlocks + (IF r.to = "ride" THEN 1 ELSE 0)
             = IF r.button = "confirm" THEN 0 ELSE 1
        /\ r.fromBlocks + (IF r.from = "ride" THEN 1 ELSE 0)
             = IF r.button = "disabled" THEN 1 ELSE 0

\* A search ends with its reservation on the screen.
SearchIsAnswered ==
    \A n \in Search : n \in searching ~> top = n

\* A confirmed reservation gets its ride, also when the user leaves it at once.
RideArrives ==
    \A n \in Search : reservation[n].button # "confirm" ~> reservation[n].to = "ride"

\* One search at a time, each reservation with its own flight and each ride once (go:,
\* confirm:, cancel:).
ReservationSafe ==
    /\ ReservationTypeOK
    /\ OneSearchAtATime
    /\ ShowsItsFlight
    /\ RidesFollowTaps
=============================================================================
