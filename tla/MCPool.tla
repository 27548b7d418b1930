------------------------------- MODULE MCPool -------------------------------
(* Small pools of every profile: members of several sizes and without one, *)
(* a parity pool whose last row is missing and one of two members only.    *)
EXTENDS Pool

MCLabel(p, n, stripe, data, meta, log, sizes) ==
    [profile |-> p, members |-> n, stripe_blocks |-> stripe, data_mask |-> data,
     metadata_mask |-> meta, log_mask |-> log, data_blocks |-> sizes,
     logical_data |-> 6, total_blocks |-> DataStart + 6]

Even(n, k) == [m \in 0 .. (n - 1) |-> k]

Labels_MC ==
    { MCLabel("single", 1, 1, {0}, {0}, {0}, Even(1, 6)),
      MCLabel("tiered", 2, 1, {0, 1}, {}, {}, [m \in 0 .. 1 |-> 2 + m]),
      MCLabel("tiered", 2, 1, {0, 1}, {}, {0}, [m \in 0 .. 1 |-> 2 - 2 * m]),
      MCLabel("mirror", 2, 1, {0, 1}, {0, 1}, {1}, Even(2, 6)),
      MCLabel("stripe", 2, 2, {0, 1}, {1}, {}, Even(2, 3)),
      MCLabel("parity", 3, 1, {0, 1, 2}, {0, 2}, {0, 1, 2}, Even(3, 3)),
      MCLabel("parity", 3, 1, {0, 1, 2}, {1}, {}, Even(3, 2)),
      MCLabel("parity", 2, 1, {0, 1}, {}, {0, 1}, Even(2, 0)) }

(* The superblock, the journal, and data blocks of one and of two rows.    *)
Written_MC == {SuperBlock, JournalBlock, DataStart, DataStart + 1, DataStart + 3,
               DataStart + 5}
=============================================================================
